---- MODULE Spec2Model ----
(***************************************************************************)
(* A model of lib/SILPasses/DefiniteInitialization.cpp: the definite       *)
(* initialization analysis of one memory object (alloc_box, alloc_stack or *)
(* mark_uninitialized), the lowering of 'assign' and the promotion of      *)
(* loads.                                                                  *)
(*                                                                         *)
(* The function under analysis is a CFG of basic blocks, each a sequence   *)
(* of instruction ids.  Instruction 0 is the memory object (TheMemory).    *)
(* An address derived from it is the chain of projections that leads to it *)
(* (the tuple_element_addr / struct_element_addr / enum_data_addr /        *)
(* init_existential instructions of the source are the steps of the        *)
(* chain).  SSA values are terms.                                          *)
(***************************************************************************)
EXTENDS Integers, Sequences, FiniteSets, TLC

\* ------------------------------------------------------------------------
\* Bounds of the model
\* ------------------------------------------------------------------------

\* Number of use instructions of the memory object in the multi-block inputs.
MaxUsesCFG == 2

\* Number of use instructions of the memory object in the one-block inputs.
MaxUsesLocal == 3

\* ------------------------------------------------------------------------
\* Types
\* ------------------------------------------------------------------------

Field(n, t) == [name |-> n, ty |-> t]

\* A type that is neither a tuple nor a struct; triv is what the type
\* lowering answers for isTrivial().
Prim(t) == [k |-> "prim", triv |-> t, fields |-> <<>>]

TupleTy(fs) == [k |-> "tuple", triv |-> FALSE, fields |-> fs]

StructTy(fs) == [k |-> "struct", triv |-> FALSE, fields |-> fs]

\* An enum with one payload type (the pointee of enum_data_addr).
EnumTy(payload) == [k |-> "enum", triv |-> FALSE, fields |-> <<Field("", payload)>>]

IntTy == Prim(TRUE)

RefTy == Prim(FALSE)

RECURSIVE isTrivial(_)
RECURSIVE AllFieldsTrivial(_, _)
AllFieldsTrivial(fs, n) ==
    IF n = 0 THEN TRUE
    ELSE isTrivial(fs[n].ty) /\ AllFieldsTrivial(fs, n - 1)

\* TypeLowering::isTrivial of the destination type.
isTrivial(T) ==
    IF T.k \in {"tuple", "struct"} THEN AllFieldsTrivial(T.fields, Len(T.fields))
    ELSE T.triv

RECURSIVE getTupleElementCount(_)
RECURSIVE TupleElementCountOfFields(_, _)
TupleElementCountOfFields(fs, n) ==
    IF n = 0 THEN 0
    ELSE TupleElementCountOfFields(fs, n - 1) + getTupleElementCount(fs[n].ty)

\* The number of elements in the flattened type: recursive over tuples only.
getTupleElementCount(T) ==
    IF T.k # "tuple" THEN 1
    ELSE TupleElementCountOfFields(T.fields, Len(T.fields))

RECURSIVE getNumSubElements(_)
RECURSIVE NumSubElementsOfFields(_, _)
\* The sub-elements of the first n fields of a field list.
NumSubElementsOfFields(fs, n) ==
    IF n = 0 THEN 0
    ELSE NumSubElementsOfFields(fs, n - 1) + getNumSubElements(fs[n].ty)

\* Recursive over tuples and structs; anything else is a single element.
getNumSubElements(T) ==
    IF T.k \in {"tuple", "struct"} THEN NumSubElementsOfFields(T.fields, Len(T.fields))
    ELSE 1

RECURSIVE getPathStringToElement(_, _, _)
RECURSIVE PathStringFields(_, _, _, _)

\* A name without the path to the element.
getPathStringToElement_NoPath(T, Element, Result) == [ok |-> TRUE, str |-> Result]

\* A loop that does not count the elements of the fields it passes.
RECURSIVE PathStringFields_NoSubtract(_, _, _, _)
PathStringFields_NoSubtract(T, FieldNo, Element, Result) ==
    IF FieldNo >= Len(T.fields) THEN [ok |-> FALSE, str |-> Result]
    ELSE LET Fld == T.fields[FieldNo + 1]
             ElementsForField == getTupleElementCount(Fld.ty)
         IN  IF Element < ElementsForField
             THEN getPathStringToElement(Fld.ty, Element,
                     Result \o "." \o
                     (IF Fld.name # "" THEN Fld.name ELSE ToString(FieldNo)))
             ELSE PathStringFields_NoSubtract(T, FieldNo + 1, Element, Result)

\* The loop over the fields of a tuple, FieldNo counted from 0.  Running off
\* the end is the assertion "Element number is out of range for this type!".
PathStringFields(T, FieldNo, Element, Result) ==
    IF FieldNo >= Len(T.fields) THEN [ok |-> FALSE, str |-> Result]
    ELSE LET Fld == T.fields[FieldNo + 1]
             ElementsForField == getTupleElementCount(Fld.ty)
         IN  IF Element < ElementsForField
             THEN getPathStringToElement(Fld.ty, Element,
                     Result \o "." \o
                     (IF Fld.name # "" THEN Fld.name ELSE ToString(FieldNo)))
             ELSE PathStringFields(T, FieldNo + 1, Element - ElementsForField, Result)

\* Push the symbolic path name to the element onto Result.
getPathStringToElement(T, Element, Result) ==
    IF T.k # "tuple" THEN [ok |-> TRUE, str |-> Result]
    ELSE PathStringFields(T, 0, Element, Result)

\* ------------------------------------------------------------------------
\* Addresses: chains of projections from the memory object
\* ------------------------------------------------------------------------

Step(kind, i) == [k |-> kind, idx |-> i]

\* The type an address points to, following the chain from the root type.
RECURSIVE PointeeType(_, _)
PointeeType(T, p) ==
    IF p = <<>> THEN T
    ELSE PointeeType(T.fields[Head(p).idx + 1].ty, Tail(p))

IsPrefix(p, q) == Len(p) <= Len(q) /\ SubSeq(q, 1, Len(p)) = p

\* All the addresses that projections can derive from an address of type T.
RECURSIVE AddrPaths(_)
AddrPaths(T) ==
    {<<>>} \cup
    UNION { { <<Step(T.k, i - 1)>> \o q : q \in AddrPaths(T.fields[i].ty) }
            : i \in 1..Len(T.fields) }

\* A chase that counts the fields before the selected one, not their
\* sub-elements.
RECURSIVE TryComputingAccessPath_CountFields(_, _, _)
TryComputingAccessPath_CountFields(T, Pointer, SubEltNumber) ==
    IF Pointer = <<>> THEN [found |-> TRUE, n |-> SubEltNumber]
    ELSE LET last == Pointer[Len(Pointer)]
             parent == SubSeq(Pointer, 1, Len(Pointer) - 1)
         IN  IF last.k \in {"tuple", "struct"}
             THEN TryComputingAccessPath_CountFields(T, parent, SubEltNumber + last.idx)
             ELSE [found |-> FALSE, n |-> SubEltNumber]

\* Chase a pointer up to the root, computing the access path: each
\* tuple_element_addr / struct_element_addr adds the sub-elements of the
\* fields before the selected one; any other instruction fails.
RECURSIVE TryComputingAccessPath(_, _, _)
TryComputingAccessPath(T, Pointer, SubEltNumber) ==
    IF Pointer = <<>> THEN [found |-> TRUE, n |-> SubEltNumber]
    ELSE LET last == Pointer[Len(Pointer)]
             parent == SubSeq(Pointer, 1, Len(Pointer) - 1)
             PT == PointeeType(T, parent)
         IN  IF last.k \in {"tuple", "struct"}
             THEN TryComputingAccessPath(T, parent,
                      SubEltNumber + NumSubElementsOfFields(PT.fields, last.idx))
             ELSE [found |-> FALSE, n |-> SubEltNumber]

\* The first sub-element addressed; ok is the assertion
\* "Failed to compute an access path to our root?".
ComputeAccessPath(T, Pointer) ==
    LET r == TryComputingAccessPath(T, Pointer, 0)
    IN  [ok |-> r.found, FirstSubElement |-> r.n]

\* ------------------------------------------------------------------------
\* SSA values
\* ------------------------------------------------------------------------

NoVal == [k |-> "none", n |-> 0, sub |-> <<>>, ty |-> IntTy]

\* A value defined outside the memory object (a function argument, a literal).
SrcVal(id, T) == [k |-> "src", n |-> id, sub |-> <<>>, ty |-> T]

\* The result of the load instruction id.
LoadVal(id, T) == [k |-> "load", n |-> id, sub |-> <<>>, ty |-> T]

\* tuple_extract / struct_extract of field EltNo (counted from 0).
ExtractVal(v, EltNo) ==
    [k |-> "extract", n |-> EltNo, sub |-> <<v>>, ty |-> v.ty.fields[EltNo + 1].ty]

\* A tuple or struct instruction.
AggVal(T, elts) == [k |-> "agg", n |-> 0, sub |-> elts, ty |-> T]

RECURSIVE ExtractSubElement(_, _)
RECURSIVE ExtractSubElementFields(_, _, _)
ExtractSubElementFields(Val, EltNo, SubElementNumber) ==
    IF EltNo >= Len(Val.ty.fields) THEN NoVal  \* assert "Didn't find field"
    ELSE LET NumSubElt == getNumSubElements(Val.ty.fields[EltNo + 1].ty)
         IN  IF SubElementNumber < NumSubElt
             THEN ExtractSubElement(ExtractVal(Val, EltNo), SubElementNumber)
             ELSE ExtractSubElementFields(Val, EltNo + 1, SubElementNumber - NumSubElt)

\* Given an aggregate value and a sub-element number, extract that value.
ExtractSubElement(Val, SubElementNumber) ==
    IF Val.ty.k \in {"tuple", "struct"}
    THEN ExtractSubElementFields(Val, 0, SubElementNumber)
    ELSE Val

\* ------------------------------------------------------------------------
\* The function under analysis
\* ------------------------------------------------------------------------

VARIABLES
    memTy,          \* the type of the memory object
    memKind,        \* "alloc_box", "alloc_stack" or "mark_uninitialized"
    preds,          \* preds[b]: the predecessor list of block b, in order
    code,           \* code[b]: the instruction ids of block b, in order
    insts,          \* insts[id]: the instruction with that id (0 is TheMemory)
    chain,          \* the instructions that use the memory object, in use-list order
    repl,           \* repl[id]: the value a replaced load's users now use
    Uses,           \* Uses[e + 1]: the ElementUses of element e
    oob,            \* a write past the end of the Uses array happened
    EltNo,          \* the element processAlloc* is working on
    NonLoadUses,    \* ElementPromotion::NonLoadUses
    PerBlockInfo,   \* ElementPromotion::PerBlockInfo
    HasAnyEscape,   \* ElementPromotion::HasAnyEscape
    HadError,       \* ElementPromotion::HadError
    i,              \* the index of the loops of doIt
    pc,             \* where the pass is
    diags,          \* the diagnostics emitted so far
    verdicts,       \* the answers of checkDefinitelyInit so far, in order
    run,            \* which run of the pass on the function this is
    fn,             \* the function a single call is made to, or "pass"
    arg,            \* the arguments of that call
    res,            \* the result of that call
    stack,          \* the frames of the calls of isLiveOut in progress
    entered         \* entered[b]: how often block b was set to IsComputingLiveOut

vars == <<memTy, memKind, preds, code, insts, chain, repl, Uses, oob, EltNo,
          NonLoadUses, PerBlockInfo, HasAnyEscape, HadError, i, pc, diags, verdicts,
          run, fn, arg, res, stack, entered>>

\* What a step of the pass leaves alone.
call == <<fn, arg, res, stack, entered>>

TheMemory == 0

Blocks == 1..Len(preds)

\* The block of TheMemory: the entry block.
MemoryBlock == 1

Inst(o, a, v, f, n) == [op |-> o, addr |-> a, val |-> v, flag |-> f, opnd |-> n]

RECURSIVE IndexOf(_, _, _)
IndexOf(s, x, k) ==
    IF k > Len(s) THEN 0 ELSE IF s[k] = x THEN k ELSE IndexOf(s, x, k + 1)

\* Inst->getParent()
getParent(c, id) == CHOOSE b \in 1..Len(c) : IndexOf(c[b], id, 1) > 0

\* SILBuilder B(Inst): the new instructions go right before Inst.
InsertBefore(c, id, new) ==
    LET b == getParent(c, id)
        k == IndexOf(c[b], id, 1)
    IN  [c EXCEPT ![b] = SubSeq(c[b], 1, k - 1) \o new \o SubSeq(c[b], k, Len(c[b]))]

\* Inst->eraseFromParent()
eraseFromParent(c, id) ==
    LET b == getParent(c, id)
        k == IndexOf(c[b], id, 1)
    IN  [c EXCEPT ![b] = SubSeq(c[b], 1, k - 1) \o SubSeq(c[b], k + 1, Len(c[b]))]

IsAlive(c, id) == \E b \in 1..Len(c) : IndexOf(c[b], id, 1) > 0

\* ------------------------------------------------------------------------
\* ElementUseCollector
\* ------------------------------------------------------------------------

UseEntry(id, kind) == [inst |-> id, kind |-> kind]

ReleaseOps == {"strong_release", "dealloc_stack"}

\* Uses[Elt].push_back({User, Kind}); st.oob records an index past the end.
PushUse(st, Elt, User, Kind) ==
    IF Elt + 1 > Len(st.Uses) THEN [st EXCEPT !.oob = TRUE]
    ELSE [st EXCEPT !.Uses[Elt + 1] = Append(@, UseEntry(User, Kind))]

RECURSIVE PushSlots(_, _, _, _, _, _)
PushSlots(st, BaseElt, n, Slots, User, Kind) ==
    IF n = Slots THEN st
    ELSE PushSlots(PushUse(st, BaseElt + n, User, Kind), BaseElt, n + 1, Slots, User, Kind)

\* An operation on a value acts on all of the aggregate elements in that
\* value, unless we are in a sub-element of a struct or enum.
addElementUses(st, BaseElt, UseTy, User, Kind, InStructSubElement, InEnumSubElement) ==
    LET Slots == IF ~InStructSubElement /\ ~InEnumSubElement
                 THEN getTupleElementCount(UseTy) ELSE 1
    IN  PushSlots(st, BaseElt, 0, Slots, User, Kind)

\* getScalarizedElements: the operands of a tuple instruction, or one
\* tuple_extract per field.
getScalarizedElements(V) ==
    IF V.k = "agg" THEN V.sub
    ELSE [n \in 1..Len(V.ty.fields) |-> ExtractVal(V, n - 1)]

\* Scalarize one load, assign or store of the tuple at Pointer: one
\* instruction per element address, inserted before the user, which is
\* erased.  new[n] is the instruction made for field n - 1.
scalarizeUser(st, T, Pointer, User) ==
    LET I == st.insts[User]
        PT == PointeeType(T, Pointer)
        N == Len(PT.fields)
        base == Len(st.insts)
        ids == [n \in 1..N |-> base + n]
        EltAddr(n) == Pointer \o <<Step("tuple", n - 1)>>
        ElementTmps == getScalarizedElements(I.val)
        made == IF I.op = "load"
                THEN [n \in 1..N |-> Inst("load", EltAddr(n), NoVal, FALSE, 0)]
                ELSE [n \in 1..N |-> Inst(I.op, EltAddr(n), ElementTmps[n], FALSE, 1)]
        Result == AggVal(PT, [n \in 1..N |-> LoadVal(base + n, PT.fields[n].ty)])
    IN  [st |-> [st EXCEPT
                   !.insts = @ \o made,
                   !.repl = [@ EXCEPT ![User] = IF I.op = "load" THEN Result ELSE @]
                            \o [n \in 1..N |-> NoVal],
                   !.code = eraseFromParent(InsertBefore(@, User, ids), User)],
         new |-> ids]

\* A loop over UsesToScalarize that leaves the users as they are.
scalarizeUsers_None(st, T, Pointer, UsesToScalarize, k, made) == [st |-> st, made |-> made]

RECURSIVE scalarizeUsers(_, _, _, _, _, _)
\* The loop over UsesToScalarize; made[n] collects, in order, the new users
\* of the element address of field n - 1.
scalarizeUsers(st, T, Pointer, UsesToScalarize, k, made) ==
    IF k > Len(UsesToScalarize) THEN [st |-> st, made |-> made]
    ELSE LET r == scalarizeUser(st, T, Pointer, UsesToScalarize[k])
         IN  scalarizeUsers(r.st, T, Pointer, UsesToScalarize, k + 1,
                            [n \in 1..Len(made) |-> Append(made[n], r.new[n])])

\* Whether cand[k] is the first of cand that is reached through the
\* projection child of Pointer (the place of that projection in the use list).
FirstThrough(st, cand, k, child) ==
    \A j \in 1..(k - 1) :
        st.insts[cand[j]].op \in ReleaseOps \/ ~IsPrefix(child, st.insts[cand[j]].addr)

RECURSIVE collectUses(_, _, _, _, _, _, _)
RECURSIVE collectElementUses(_, _, _, _, _, _, _)
RECURSIVE collectLoop(_, _, _, _, _, _, _, _, _)
RECURSIVE collectScalarized(_, _, _, _, _, _, _, _)

\* A walk that forgets that it went through a struct_element_addr.
collectElementUses_NotInStruct(st, T, ElementPtr, BaseElt, InStructSubElement, InEnumSubElement, cand) ==
    LET last == ElementPtr[Len(ElementPtr)]
        TT == PointeeType(T, SubSeq(ElementPtr, 1, Len(ElementPtr) - 1))
    IN  IF last.k = "struct"
        THEN collectUses(st, T, ElementPtr, BaseElt, FALSE, InEnumSubElement, cand)
        ELSE IF InStructSubElement
        THEN collectUses(st, T, ElementPtr, BaseElt, InStructSubElement,
                         InEnumSubElement, cand)
        ELSE collectUses(st, T, ElementPtr,
                         BaseElt + TupleElementCountOfFields(TT.fields, last.idx),
                         InStructSubElement, InEnumSubElement, cand)

\* A walk that takes every projection for a projection into a struct.
collectElementUses_AllPartial(st, T, ElementPtr, BaseElt, InStructSubElement, InEnumSubElement, cand) ==
    LET last == ElementPtr[Len(ElementPtr)]
        TT == PointeeType(T, SubSeq(ElementPtr, 1, Len(ElementPtr) - 1))
    IN  IF last.k = "struct"
        THEN collectUses(st, T, ElementPtr, BaseElt, TRUE, InEnumSubElement, cand)
        ELSE IF InStructSubElement
        THEN collectUses(st, T, ElementPtr, BaseElt, InStructSubElement,
                         InEnumSubElement, cand)
        ELSE collectUses(st, T, ElementPtr,
                         BaseElt + TupleElementCountOfFields(TT.fields, last.idx),
                         TRUE, InEnumSubElement, cand)

\* Given a tuple_element_addr or struct_element_addr (the last step of
\* ElementPtr), compute the new BaseElt and recursively add its uses.
collectElementUses(st, T, ElementPtr, BaseElt, InStructSubElement, InEnumSubElement, cand) ==
    LET last == ElementPtr[Len(ElementPtr)]
        TT == PointeeType(T, SubSeq(ElementPtr, 1, Len(ElementPtr) - 1))
    IN  IF last.k = "struct"
        THEN collectUses(st, T, ElementPtr, BaseElt, TRUE, InEnumSubElement, cand)
        ELSE IF InStructSubElement
        THEN collectUses(st, T, ElementPtr, BaseElt, InStructSubElement,
                         InEnumSubElement, cand)
        ELSE collectUses(st, T, ElementPtr,
                         BaseElt + TupleElementCountOfFields(TT.fields, last.idx),
                         InStructSubElement, InEnumSubElement, cand)

\* The recursion into the element addresses made by scalarization.
collectScalarized(st, T, Pointer, BaseElt, InStructSubElement, InEnumSubElement, made, n) ==
    IF n > Len(made) THEN st
    ELSE collectScalarized(
             collectElementUses(st, T, Pointer \o <<Step("tuple", n - 1)>>, BaseElt,
                                InStructSubElement, InEnumSubElement, made[n]),
             T, Pointer, BaseElt, InStructSubElement, InEnumSubElement, made, n + 1)

\* The loop over Pointer.getUses(), then the scalarization of the uses that
\* touch a whole tuple.
collectLoop(st, T, Pointer, BaseElt, InStructSubElement, InEnumSubElement, cand, k, UsesToScalarize) ==
    IF k > Len(cand)
    THEN IF UsesToScalarize = <<>> THEN st
         ELSE LET PT == PointeeType(T, Pointer)
                  r == scalarizeUsers(st, T, Pointer, UsesToScalarize, 1,
                                      [n \in 1..Len(PT.fields) |-> <<>>])
              IN  collectScalarized(r.st, T, Pointer, BaseElt, InStructSubElement,
                                    InEnumSubElement, r.made, 1)
    ELSE
    LET User == cand[k]
        I == st.insts[User]
        PointeeTy == PointeeType(T, Pointer)
        Kind == IF InStructSubElement THEN "PartialStore" ELSE "Store"
        next(st2, scal) ==
            collectLoop(st2, T, Pointer, BaseElt, InStructSubElement, InEnumSubElement,
                        cand, k + 1, scal)
        skip == next(st, UsesToScalarize)
        push(kind) == next(PushUse(st, BaseElt, User, kind), UsesToScalarize)
        pushAll(kind) ==
            next(addElementUses(st, BaseElt, PointeeTy, User, kind,
                                InStructSubElement, InEnumSubElement), UsesToScalarize)
    IN  IF I.op \in ReleaseOps \/ ~IsPrefix(Pointer, I.addr) THEN skip
        ELSE IF I.addr # Pointer
        THEN \* a user of a projection of Pointer
             LET child == SubSeq(I.addr, 1, Len(Pointer) + 1)
                 last == child[Len(child)]
             IN  IF last.k = "exist" \/ ~FirstThrough(st, cand, k, child) THEN skip
                 ELSE IF last.k = "enum"
                 THEN next(collectUses(st, T, child, BaseElt, InStructSubElement,
                                       TRUE, cand), UsesToScalarize)
                 ELSE next(collectElementUses(st, T, child, BaseElt, InStructSubElement,
                                              InEnumSubElement, cand), UsesToScalarize)
        ELSE IF I.op = "load"
        THEN IF PointeeTy.k = "tuple" THEN next(st, Append(UsesToScalarize, User))
             ELSE push("Load")
        ELSE IF I.op = "load_weak" THEN push("Load")
        ELSE IF I.op \in {"store", "assign", "store_weak"} /\ I.opnd = 1
        THEN IF PointeeTy.k = "tuple" THEN next(st, Append(UsesToScalarize, User))
             ELSE push(Kind)
        ELSE IF I.op = "copy_addr"
        THEN pushAll(IF I.opnd = 0 THEN "Load" ELSE Kind)
        ELSE IF I.op = "initialize_var" THEN pushAll(Kind)
        ELSE IF I.op = "apply_result" THEN pushAll("Store")
        ELSE IF I.op = "apply_inout" THEN pushAll("InOutUse")
        ELSE IF I.op = "init_existential"
        THEN next(collectUses(PushUse(st, BaseElt, User, "Store"), T,
                              Pointer \o <<Step("exist", 0)>>, BaseElt, TRUE,
                              InEnumSubElement, cand), UsesToScalarize)
        ELSE IF I.op = "inject_enum_addr" THEN push("Store")
        ELSE IF I.op = "upcast_existential"
        THEN push(IF I.opnd = 1 THEN "Store" ELSE "Load")
        ELSE IF I.op \in {"project_existential", "protocol_method"} THEN push("Load")
        ELSE pushAll("Escape")

\* The main entry point of the use walker; cand is the use list.
collectUses(st, T, Pointer, BaseElt, InStructSubElement, InEnumSubElement, cand) ==
    collectLoop(st, T, Pointer, BaseElt, InStructSubElement, InEnumSubElement, cand, 1,
                <<>>)

RECURSIVE collectReleases(_, _, _, _)
\* The uses of the retain count result: every release is a use of every element.
collectReleases(st, kind, cand, k) ==
    IF k > Len(cand) THEN st
    ELSE LET User == cand[k]
             op == st.insts[User].op
             isRel == \/ kind = "alloc_box" /\ op = "strong_release"
                      \/ kind = "alloc_stack" /\ op \in ReleaseOps
         IN  collectReleases(
                 IF isRel
                 THEN [st EXCEPT !.Uses = [e \in 1..Len(@) |->
                                              Append(@[e], UseEntry(User, "Release"))]]
                 ELSE st,
                 kind, cand, k + 1)

\* ------------------------------------------------------------------------
\* LowerAssignInstruction
\* ------------------------------------------------------------------------

\* A lowering that always releases the old value, whatever the type of the
\* storage is.
LowerAssignInstruction_IgnoreTrivial(st, T, AssignId, isInitialization) ==
    LET AI == st.insts[AssignId]
        DestTy == PointeeType(T, AI.addr)
        base == Len(st.insts)
        store == Inst("store", AI.addr, AI.val, FALSE, 1)
        made == IF isInitialization
                THEN <<store>>
                ELSE <<Inst("load", AI.addr, NoVal, FALSE, 0),
                       store,
                       Inst("destroy_value", <<>>, LoadVal(base + 1, DestTy), FALSE, 0)>>
        ids == [n \in 1..Len(made) |-> base + n]
    IN  [st |-> [st EXCEPT
                   !.insts = @ \o made,
                   !.repl = @ \o [n \in 1..Len(made) |-> NoVal],
                   !.code = eraseFromParent(InsertBefore(@, AssignId, ids), AssignId)],
         new |-> ids]

\* Emit the sequence that an assign lowers to: a store if this is an
\* initialization or the storage type is trivial, otherwise the load of the
\* old value, the store and the destroy of the old value; then erase the
\* assign.  st holds code, insts and repl; new lists the inserted instructions.
LowerAssignInstruction(st, T, AssignId, isInitialization) ==
    LET AI == st.insts[AssignId]
        DestTy == PointeeType(T, AI.addr)
        base == Len(st.insts)
        store == Inst("store", AI.addr, AI.val, FALSE, 1)
        made == IF isInitialization \/ isTrivial(DestTy)
                THEN <<store>>
                ELSE <<Inst("load", AI.addr, NoVal, FALSE, 0),
                       store,
                       Inst("destroy_value", <<>>, LoadVal(base + 1, DestTy), FALSE, 0)>>
        ids == [n \in 1..Len(made) |-> base + n]
    IN  [st |-> [st EXCEPT
                   !.insts = @ \o made,
                   !.repl = @ \o [n \in 1..Len(made) |-> NoVal],
                   !.code = eraseFromParent(InsertBefore(@, AssignId, ids), AssignId)],
         new |-> ids]

\* ------------------------------------------------------------------------
\* ElementPromotion
\* ------------------------------------------------------------------------

LiveOutBlockState(e, h, a) == [EscapeInfo |-> e, HasNonLoadUse |-> h, Availability |-> a]

\* The constructor: NonLoadUses, PerBlockInfo and HasAnyEscape of the element
\* whose uses are uses.
NonLoadUsesOf(uses) ==
    {uses[k].inst : k \in {j \in 1..Len(uses) : uses[j].kind # "Load"}} \cup {TheMemory}

\* A table without the allocation accounted for as a use.
PerBlockInfoOf_NoMemory(uses, c) ==
    LET here(b) == {k \in 1..Len(uses) :
                        uses[k].kind # "Load" /\ getParent(c, uses[k].inst) = b}
    IN  [b \in 1..Len(c) |->
            LiveOutBlockState(
                IF \E k \in here(b) : uses[k].kind = "Escape" THEN "Yes" ELSE "Unknown",
                here(b) # {},
                IF here(b) # {} THEN "IsLiveOut" ELSE "IsUnknown")]

PerBlockInfoOf(uses, c) ==
    LET here(b) == {k \in 1..Len(uses) :
                        uses[k].kind # "Load" /\ getParent(c, uses[k].inst) = b}
        first == [b \in 1..Len(c) |->
                    LiveOutBlockState(
                        IF \E k \in here(b) : uses[k].kind = "Escape"
                        THEN "Yes" ELSE "Unknown",
                        here(b) # {},
                        IF here(b) # {} THEN "IsLiveOut" ELSE "IsUnknown")]
    IN  [first EXCEPT
           ![MemoryBlock].HasNonLoadUse = TRUE,
           ![MemoryBlock].Availability = IF @ = "IsUnknown" THEN "IsNotLiveOut" ELSE @]

\* A constructor that never sets HasAnyEscape.
HasAnyEscapeOf_Never(uses) == FALSE

HasAnyEscapeOf(uses) == \E k \in 1..Len(uses) : uses[k].kind = "Escape"

RECURSIVE isLiveOut(_, _, _)
RECURSIVE isLiveOutPreds(_, _, _, _)
\* The loop over the predecessors of BB: stop at the first that is not live out.
isLiveOutPreds(info, P, BB, k) ==
    IF k > Len(P[BB]) THEN [r |-> TRUE, info |-> info]
    ELSE LET x == isLiveOut(info, P, P[BB][k])
         IN  IF ~x.r THEN [r |-> FALSE, info |-> x.info]
             ELSE isLiveOutPreds(x.info, P, BB, k + 1)

isLiveOut(info, P, BB) ==
    LET a == info[BB].Availability
    IN  IF a = "IsNotLiveOut" THEN [r |-> FALSE, info |-> info]
        ELSE IF a \in {"IsLiveOut", "IsComputingLiveOut"} THEN [r |-> TRUE, info |-> info]
        ELSE LET x == isLiveOutPreds(
                          [info EXCEPT ![BB].Availability = "IsComputingLiveOut"], P, BB, 1)
             IN  [r |-> x.r,
                  info |-> [x.info EXCEPT ![BB].Availability =
                                IF x.r THEN "IsLiveOut" ELSE "IsNotLiveOut"]]

\* A loop that is content with one predecessor that is live out.
RECURSIVE AllPredsLiveOut_Any(_, _, _, _)
AllPredsLiveOut_Any(info, P, InstBB, k) ==
    IF k > Len(P[InstBB]) THEN [di |-> "DI_No", info |-> info]
    ELSE LET x == isLiveOut(info, P, P[InstBB][k])
         IN  IF x.r THEN [di |-> "DI_Yes", info |-> x.info]
             ELSE AllPredsLiveOut_Any(x.info, P, InstBB, k + 1)

\* A loop that tells a predecessor that is not live out after one that is
\* from a first predecessor that is not.
RECURSIVE AllPredsLiveOut_Partial(_, _, _, _)
AllPredsLiveOut_Partial(info, P, InstBB, k) ==
    IF k > Len(P[InstBB]) THEN [di |-> "DI_Yes", info |-> info]
    ELSE LET x == isLiveOut(info, P, P[InstBB][k])
         IN  IF ~x.r THEN [di |-> IF k > 1 THEN "DI_Partial" ELSE "DI_No", info |-> x.info]
             ELSE AllPredsLiveOut_Partial(x.info, P, InstBB, k + 1)

\* A loop that trusts no predecessor.
AllPredsLiveOut_Never(info, P, InstBB, k) == [di |-> "DI_No", info |-> info]

RECURSIVE AllPredsLiveOut(_, _, _, _)
\* The loop of checkDefinitelyInit over the predecessors of InstBB.
AllPredsLiveOut(info, P, InstBB, k) ==
    IF k > Len(P[InstBB]) THEN [di |-> "DI_Yes", info |-> info]
    ELSE LET x == isLiveOut(info, P, P[InstBB][k])
         IN  IF ~x.r THEN [di |-> "DI_No", info |-> x.info]
             ELSE AllPredsLiveOut(x.info, P, InstBB, k + 1)

\* A scan that stops at the allocation only.
RECURSIVE ScanBack_AllocOnly(_, _, _)
ScanBack_AllocOnly(block, nlu, pos) ==
    IF pos = 0 THEN 0
    ELSE IF block[pos] = TheMemory THEN pos
    ELSE ScanBack_AllocOnly(block, nlu, pos - 1)

\* The last position before pos in block that holds a member of nlu, or 0.
RECURSIVE ScanBack(_, _, _)
ScanBack(block, nlu, pos) ==
    IF pos = 0 THEN 0
    ELSE IF block[pos] \in nlu THEN pos
    ELSE ScanBack(block, nlu, pos - 1)

\* A check that does not look at the predecessors.
checkDefinitelyInit_SkipPreds(info, nlu, c, P, InstId) ==
    LET InstBB == getParent(c, InstId)
        pos == IndexOf(c[InstBB], InstId, 1)
        found == IF info[InstBB].HasNonLoadUse
                 THEN ScanBack(c[InstBB], nlu, pos - 1) ELSE 0
    IN  IF found # 0
        THEN [di |-> IF c[InstBB][found] = TheMemory THEN "DI_No" ELSE "DI_Yes",
              info |-> info]
        ELSE [di |-> "DI_Yes", info |-> info]

\* Determine whether the element is definitely initialized at Inst.
checkDefinitelyInit(info, nlu, c, P, InstId) ==
    LET InstBB == getParent(c, InstId)
        pos == IndexOf(c[InstBB], InstId, 1)
        found == IF info[InstBB].HasNonLoadUse
                 THEN ScanBack(c[InstBB], nlu, pos - 1) ELSE 0
    IN  IF found # 0
        THEN [di |-> IF c[InstBB][found] = TheMemory THEN "DI_No" ELSE "DI_Yes",
              info |-> info]
        ELSE AllPredsLiveOut(info, P, InstBB, 1)

\* The name of the declaration of the memory object.
MemoryName == "a"

\* diagnoseInitError: the error at the use, named by the element path, and
\* the note at the definition.  elt records which ElementPromotion spoke.
\* An error without the note that follows it.
diagnoseInitError_NoNote(ds, T, ElementNumber, Use, DiagMessage) ==
    ds \o << [kind |-> DiagMessage, inst |-> Use, elt |-> ElementNumber,
              name |-> getPathStringToElement(T, ElementNumber, MemoryName).str] >>

diagnoseInitError(ds, T, ElementNumber, Use, DiagMessage) ==
    ds \o << [kind |-> DiagMessage, inst |-> Use, elt |-> ElementNumber,
              name |-> getPathStringToElement(T, ElementNumber, MemoryName).str],
             [kind |-> "variable_defined_here", inst |-> TheMemory, elt |-> ElementNumber,
              name |-> ""] >>

\* ------------------------------------------------------------------------
\* Load promotion
\* ------------------------------------------------------------------------

\* An entry of AvailableValues: the value and which sub-element of it.
Available(v, n) == [val |-> v, idx |-> n]

\* The opcode of an instruction id (TheMemory is not in insts).
OpOf(is, id) == IF id = TheMemory THEN "alloc" ELSE is[id].op

\* An update that lets the scan go on past an access that is not a store.
updateAvailableValues_NoClobber(T, is, InstId, RequiredElts, Result) ==
    IF OpOf(is, InstId) \in {"store", "assign"}
    THEN LET I == is[InstId]
             ap == ComputeAccessPath(T, I.addr)
             StartSubElt == ap.FirstSubElement
             hit == {n \in 0..(getNumSubElements(I.val.ty) - 1) :
                        (StartSubElt + n) \in RequiredElts}
         IN  [produced |-> hit # {},
              req |-> RequiredElts \ {StartSubElt + n : n \in hit},
              res |-> [e \in 1..Len(Result) |->
                          IF (e - 1 - StartSubElt) \in hit
                          THEN Available(I.val, e - 1 - StartSubElt)
                          ELSE Result[e]],
              ok |-> ap.ok /\ I.opnd = 1]
    ELSE [produced |-> FALSE, req |-> RequiredElts, res |-> Result, ok |-> TRUE]

\* A non-load access of the element: a store or assign provides the demanded
\* sub-elements it covers; anything else clobbers everything.  ok is the
\* assertion of ComputeAccessPath.
updateAvailableValues(T, is, InstId, RequiredElts, Result) ==
    IF OpOf(is, InstId) \in {"store", "assign"}
    THEN LET I == is[InstId]
             ap == ComputeAccessPath(T, I.addr)
             StartSubElt == ap.FirstSubElement
             hit == {n \in 0..(getNumSubElements(I.val.ty) - 1) :
                        (StartSubElt + n) \in RequiredElts}
         IN  [produced |-> hit # {},
              req |-> RequiredElts \ {StartSubElt + n : n \in hit},
              res |-> [e \in 1..Len(Result) |->
                          IF (e - 1 - StartSubElt) \in hit
                          THEN Available(I.val, e - 1 - StartSubElt)
                          ELSE Result[e]],
              ok |-> ap.ok /\ I.opnd = 1]
    ELSE [produced |-> FALSE, req |-> {}, res |-> Result, ok |-> TRUE]

RECURSIVE ScanAvailable(_, _, _, _, _, _, _, _)
\* The backward scan of the block of the load, from position pos.
ScanAvailable(T, is, nlu, block, pos, RequiredElts, Result, FoundSomeValues) ==
    IF pos = 0
    THEN [fail |-> ~FoundSomeValues, res |-> Result, ok |-> TRUE]
    ELSE IF block[pos] \in nlu
    THEN LET u == updateAvailableValues(T, is, block[pos], RequiredElts, Result)
         IN  IF ~u.ok THEN [fail |-> TRUE, res |-> Result, ok |-> FALSE]
             ELSE IF u.req = {}
             THEN [fail |-> ~(FoundSomeValues \/ u.produced), res |-> u.res, ok |-> TRUE]
             ELSE ScanAvailable(T, is, nlu, block, pos - 1, u.req, u.res,
                                FoundSomeValues \/ u.produced)
    ELSE ScanAvailable(T, is, nlu, block, pos - 1, RequiredElts, Result, FoundSomeValues)

\* Try to find available values of the demanded sub-elements, starting right
\* before StartingFrom.  fail is the result of the source: true if no
\* available values were found.
computeAvailableValues(T, is, info, nlu, c, StartingFrom, RequiredElts, Result) ==
    LET InstBB == getParent(c, StartingFrom)
        pos == IndexOf(c[InstBB], StartingFrom, 1)
    IN  IF RequiredElts = {} THEN [fail |-> FALSE, res |-> Result, ok |-> TRUE]
        ELSE IF info[InstBB].HasNonLoadUse
        THEN ScanAvailable(T, is, nlu, c[InstBB], pos - 1, RequiredElts, Result, FALSE)
        ELSE [fail |-> TRUE, res |-> Result, ok |-> TRUE]

anyMissing(StartSubElt, NumSubElts, Values) ==
    \E n \in StartSubElt..(StartSubElt + NumSubElts - 1) : Values[n + 1].val.k = "none"

RECURSIVE AggregateAvailableValues(_, _, _, _, _, _)
RECURSIVE AggregateFields(_, _, _, _, _, _, _, _)
\* The loop over the fields of a tuple or struct LoadTy.
AggregateFields(LoadTy, Address, AvailableValues, FirstElt, base, made, n, ResultElts) ==
    IF n > Len(LoadTy.fields) THEN [elts |-> ResultElts, made |-> made]
    ELSE LET EltTy == LoadTy.fields[n].ty
             r == AggregateAvailableValues(EltTy, Address \o <<Step(LoadTy.k, n - 1)>>,
                                           AvailableValues, FirstElt, base, made)
         IN  AggregateFields(LoadTy, Address, AvailableValues,
                             FirstElt + getNumSubElements(EltTy), base, r.made, n + 1,
                             Append(ResultElts, r.val))

\* Build a value of type LoadTy out of the available sub-element values,
\* emitting a load (appended to made; its id is its place after base) for
\* every sub-element that is not available.
AggregateAvailableValues(LoadTy, Address, AvailableValues, FirstElt, base, made) ==
    LET First == IF FirstElt < Len(AvailableValues)
                 THEN AvailableValues[FirstElt + 1] ELSE Available(NoVal, 0)
        AllMatch == /\ First.val.k # "none"
                    /\ First.idx = 0
                    /\ First.val.ty = LoadTy
                    /\ \A n \in 0..(getNumSubElements(LoadTy) - 1) :
                          AvailableValues[FirstElt + n + 1] = Available(First.val, n)
    IN  IF AllMatch THEN [val |-> First.val, made |-> made]
        ELSE IF LoadTy.k \in {"tuple", "struct"}
        THEN LET r == AggregateFields(LoadTy, Address, AvailableValues, FirstElt, base,
                                      made, 1, <<>>)
             IN  [val |-> AggVal(LoadTy, r.elts), made |-> r.made]
        ELSE IF AvailableValues[FirstElt + 1].val.k = "none"
        THEN [val |-> LoadVal(base + Len(made) + 1, LoadTy),
              made |-> Append(made, Inst("load", Address, NoVal, FALSE, 0))]
        ELSE [val |-> ExtractSubElement(AvailableValues[FirstElt + 1].val,
                                        AvailableValues[FirstElt + 1].idx),
              made |-> made]

\* A promotion that gives up unless every demanded sub-element is available.
promoteLoad_AllOrNothing(T, is, info, nlu, escaped, c, InstId) ==
    LET I == is[InstId]
        LoadTy == PointeeType(T, I.addr)
        ap == ComputeAccessPath(T, I.addr)
        FirstElt == ap.FirstSubElement
        NumMemorySubElements == getNumSubElements(T)
        RequiredElts == FirstElt..(FirstElt + getNumSubElements(LoadTy) - 1)
        AvailableValues == [e \in 1..NumMemorySubElements |-> Available(NoVal, 0)]
        cav == computeAvailableValues(T, is, info, nlu, c, InstId, RequiredElts,
                                      AvailableValues)
        agg == AggregateAvailableValues(LoadTy, I.addr, cav.res, FirstElt, Len(is), <<>>)
    IN  IF I.op # "load" \/ escaped THEN [what |-> "skip", val |-> NoVal, made |-> <<>>]
        ELSE IF ~ap.ok \/ ~cav.ok THEN [what |-> "assert", val |-> NoVal, made |-> <<>>]
        ELSE IF cav.fail \/ \E e \in RequiredElts : cav.res[e + 1].val.k = "none"
        THEN [what |-> "none", val |-> NoVal, made |-> <<>>]
        ELSE [what |-> "promoted", val |-> agg.val, made |-> agg.made]

\* promoteLoad.  what is "skip" (not a LoadInst, or the box has escaped),
\* "assert" (ComputeAccessPath failed), "none" (no available values) or
\* "promoted", with the new value and the loads emitted before the load.
promoteLoad(T, is, info, nlu, escaped, c, InstId) ==
    LET I == is[InstId]
        LoadTy == PointeeType(T, I.addr)
        ap == ComputeAccessPath(T, I.addr)
        FirstElt == ap.FirstSubElement
        NumMemorySubElements == getNumSubElements(T)
        RequiredElts == FirstElt..(FirstElt + getNumSubElements(LoadTy) - 1)
        AvailableValues == [e \in 1..NumMemorySubElements |-> Available(NoVal, 0)]
        cav == computeAvailableValues(T, is, info, nlu, c, InstId, RequiredElts,
                                      AvailableValues)
        agg == AggregateAvailableValues(LoadTy, I.addr, cav.res, FirstElt, Len(is), <<>>)
    IN  IF I.op # "load" \/ escaped THEN [what |-> "skip", val |-> NoVal, made |-> <<>>]
        ELSE IF ~ap.ok \/ ~cav.ok THEN [what |-> "assert", val |-> NoVal, made |-> <<>>]
        ELSE IF cav.fail THEN [what |-> "none", val |-> NoVal, made |-> <<>>]
        ELSE [what |-> "promoted", val |-> agg.val, made |-> agg.made]

\* ------------------------------------------------------------------------
\* The pass: processAllocBox / processAllocStack / processMarkUninitialized,
\* ElementPromotion::doIt and lowerRawSILOperations
\* ------------------------------------------------------------------------

CurUses == Uses[EltNo + 1]

CurUse == CurUses[i + 1]

\* The next Load entry of uses at index from or later, else the end.
RECURSIVE NextLoad(_, _)
NextLoad(uses, from) ==
    IF from >= Len(uses) THEN Len(uses)
    ELSE IF uses[from + 1].kind = "Load" THEN from
    ELSE NextLoad(uses, from + 1)

\* Set up the Uses array, walk the use list of the address, then record the
\* releases of the retain count result.
CollectUses ==
    /\ pc = "collect"
    /\ LET st0 == [Uses |-> [e \in 1..getTupleElementCount(memTy) |-> <<>>],
                   code |-> code, insts |-> insts, repl |-> repl, oob |-> FALSE]
           st1 == collectUses(st0, memTy, <<>>, 0, FALSE, FALSE, chain)
           st2 == collectReleases(st1, memKind, chain, 1)
       IN  /\ Uses' = st2.Uses
           /\ code' = st2.code
           /\ insts' = st2.insts
           /\ repl' = st2.repl
           /\ oob' = st2.oob
           \* Uses[BaseElt+i] past the end is undefined: the walk may go on
           \* with the write lost, or the program may stop there.
           /\ pc' \in (IF st2.oob THEN {"element", "aborted"} ELSE {"element"})
    /\ EltNo' = 0
    /\ UNCHANGED <<run, call, memTy, memKind, preds, chain, NonLoadUses, PerBlockInfo,
                   HasAnyEscape, HadError, i, diags, verdicts>>

\* ElementPromotion(TheMemory, EltNo, Elt): the constructor.
StartElement ==
    /\ pc = "element"
    /\ EltNo < Len(Uses)
    /\ NonLoadUses' = NonLoadUsesOf(CurUses)
    /\ PerBlockInfo' = PerBlockInfoOf(CurUses, code)
    /\ HasAnyEscape' = HasAnyEscapeOf(CurUses)
    /\ HadError' = FALSE
    /\ i' = 0
    /\ pc' = "phase1"
    /\ UNCHANGED <<run, call, memTy, memKind, preds, code, insts, chain, repl, Uses, oob, EltNo,
                   diags, verdicts>>

\* A loop that goes on after an error.
AfterUse_GoOn(err) ==
    /\ HadError' = err
    /\ pc' = "phase1" /\ EltNo' = EltNo /\ i' = i + 1

\* The end of one iteration of the first loop of doIt.
AfterUse(err) ==
    /\ HadError' = err
    /\ IF err
       THEN pc' = "element" /\ EltNo' = EltNo + 1 /\ i' = 0
       ELSE pc' = "phase1" /\ EltNo' = EltNo /\ i' = i + 1

\* handleLoadUse, handleInOutUse, handleEscape and handleRelease: diagnose
\* unless the element is definitely initialized at the use.
RequireInit(DiagMessage) ==
    LET r == checkDefinitelyInit(PerBlockInfo, NonLoadUses, code, preds, CurUse.inst)
    IN  /\ PerBlockInfo' = r.info
        /\ verdicts' = Append(verdicts, [inst |-> CurUse.inst, di |-> r.di])
        /\ diags' = IF r.di # "DI_Yes"
                    THEN diagnoseInitError(diags, memTy, EltNo, CurUse.inst, DiagMessage)
                    ELSE diags
        /\ AfterUse(r.di # "DI_Yes")
        /\ UNCHANGED <<run, call, memTy, memKind, preds, code, insts, chain, repl, Uses, oob,
                       NonLoadUses, HasAnyEscape>>

AtUse(kinds) == pc = "phase1" /\ i < Len(CurUses) /\ CurUse.kind \in kinds

handleLoadUse ==
    /\ AtUse({"Load"})
    /\ RequireInit("variable_used_before_initialized")

handleInOutUse ==
    /\ AtUse({"InOutUse"})
    /\ RequireInit("variable_inout_before_initialized")

handleEscape ==
    /\ AtUse({"Escape"})
    /\ RequireInit(IF insts[CurUse.inst].op = "mark_function_escape"
                   THEN "global_variable_function_use_uninit"
                   ELSE "variable_escape_before_initialized")

handleRelease ==
    /\ AtUse({"Release"})
    /\ RequireInit("variable_destroyed_before_initialized")

\* The uses lowering an assign adds: its stores and its loads.
\* A lowering that registers the stores it made and not the loads.
RECURSIVE InsertedUses_StoresOnly(_, _, _)
InsertedUses_StoresOnly(is, new, k) ==
    IF k > Len(new) THEN <<>>
    ELSE (IF is[new[k]].op = "store" THEN <<UseEntry(new[k], "Store")>> ELSE <<>>)
         \o InsertedUses_StoresOnly(is, new, k + 1)

RECURSIVE InsertedUses(_, _, _)
InsertedUses(is, new, k) ==
    IF k > Len(new) THEN <<>>
    ELSE (IF is[new[k]].op = "store" THEN <<UseEntry(new[k], "Store")>>
          ELSE IF is[new[k]].op = "load" THEN <<UseEntry(new[k], "Load")>>
          ELSE <<>>) \o InsertedUses(is, new, k + 1)

\* A handler that leaves the initialization bit of a copy_addr or
\* store_weak as it finds it.
handleStoreUse_KeepFlag ==
    /\ AtUse({"Store", "PartialStore"})
    /\ LET Id == CurUse.inst
           I == insts[Id]
           isPartialStore == CurUse.kind = "PartialStore"
           \* SILGen is trusted for everything but assign and the copy_addr
           \* and store_weak that are not marked as initializations.
           trusted == /\ ~isPartialStore
                      /\ I.op # "assign"
                      /\ ~(I.op \in {"copy_addr", "store_weak"} /\ ~I.flag)
           r == checkDefinitelyInit(PerBlockInfo, NonLoadUses, code, preds, Id)
           low == LowerAssignInstruction([code |-> code, insts |-> insts, repl |-> repl],
                                         memTy, Id, r.di = "DI_No")
           error == IF isPartialStore /\ r.di # "DI_Yes" THEN "struct_not_fully_initialized"
                    ELSE IF r.di = "DI_Partial" THEN "variable_initialized_on_some_paths"
                    ELSE ""
       IN  IF trusted
           THEN /\ AfterUse(FALSE)
                /\ UNCHANGED <<code, insts, repl, Uses, NonLoadUses, PerBlockInfo, diags,
                               verdicts>>
           ELSE /\ PerBlockInfo' = r.info
                /\ verdicts' = Append(verdicts, [inst |-> Id, di |-> r.di])
                /\ AfterUse(error # "")
                /\ IF error # ""
                   THEN /\ diags' = diagnoseInitError(diags, memTy, EltNo, Id, error)
                        /\ UNCHANGED <<code, insts, repl, Uses, NonLoadUses>>
                   ELSE IF I.op \in {"copy_addr", "store_weak"}
                   THEN /\ insts' = insts
                        /\ UNCHANGED <<code, repl, Uses, NonLoadUses, diags>>
                   ELSE IF I.op = "assign"
                   THEN /\ code' = low.st.code
                        /\ insts' = low.st.insts
                        /\ repl' = low.st.repl
                        /\ NonLoadUses' =
                              (NonLoadUses \ {Id}) \cup
                              {id \in {low.new[n] : n \in 1..Len(low.new)} :
                                  low.st.insts[id].op = "store"}
                        /\ Uses' = [Uses EXCEPT ![EltNo + 1] =
                                       @ \o InsertedUses(low.st.insts, low.new, 1)]
                        /\ UNCHANGED diags
                   ELSE UNCHANGED <<code, insts, repl, Uses, NonLoadUses, diags>>
    /\ UNCHANGED <<run, call, memTy, memKind, preds, chain, oob, HasAnyEscape>>

handleStoreUse ==
    /\ AtUse({"Store", "PartialStore"})
    /\ LET Id == CurUse.inst
           I == insts[Id]
           isPartialStore == CurUse.kind = "PartialStore"
           \* SILGen is trusted for everything but assign and the copy_addr
           \* and store_weak that are not marked as initializations.
           trusted == /\ ~isPartialStore
                      /\ I.op # "assign"
                      /\ ~(I.op \in {"copy_addr", "store_weak"} /\ ~I.flag)
           r == checkDefinitelyInit(PerBlockInfo, NonLoadUses, code, preds, Id)
           low == LowerAssignInstruction([code |-> code, insts |-> insts, repl |-> repl],
                                         memTy, Id, r.di = "DI_No")
           error == IF isPartialStore /\ r.di # "DI_Yes" THEN "struct_not_fully_initialized"
                    ELSE IF r.di = "DI_Partial" THEN "variable_initialized_on_some_paths"
                    ELSE ""
       IN  IF trusted
           THEN /\ AfterUse(FALSE)
                /\ UNCHANGED <<code, insts, repl, Uses, NonLoadUses, PerBlockInfo, diags,
                               verdicts>>
           ELSE /\ PerBlockInfo' = r.info
                /\ verdicts' = Append(verdicts, [inst |-> Id, di |-> r.di])
                /\ AfterUse(error # "")
                /\ IF error # ""
                   THEN /\ diags' = diagnoseInitError(diags, memTy, EltNo, Id, error)
                        /\ UNCHANGED <<code, insts, repl, Uses, NonLoadUses>>
                   ELSE IF I.op \in {"copy_addr", "store_weak"}
                   THEN /\ insts' = [insts EXCEPT ![Id].flag = (r.di = "DI_No")]
                        /\ UNCHANGED <<code, repl, Uses, NonLoadUses, diags>>
                   ELSE IF I.op = "assign"
                   THEN /\ code' = low.st.code
                        /\ insts' = low.st.insts
                        /\ repl' = low.st.repl
                        /\ NonLoadUses' =
                              (NonLoadUses \ {Id}) \cup
                              {id \in {low.new[n] : n \in 1..Len(low.new)} :
                                  low.st.insts[id].op = "store"}
                        /\ Uses' = [Uses EXCEPT ![EltNo + 1] =
                                       @ \o InsertedUses(low.st.insts, low.new, 1)]
                        /\ UNCHANGED diags
                   ELSE UNCHANGED <<code, insts, repl, Uses, NonLoadUses, diags>>
    /\ UNCHANGED <<run, call, memTy, memKind, preds, chain, oob, HasAnyEscape>>

\* The first loop of doIt is over without an error: start the second.
EndPhase1 ==
    /\ pc = "phase1"
    /\ i = Len(CurUses)
    /\ pc' = "phase2"
    /\ i' = NextLoad(CurUses, 0)
    /\ UNCHANGED <<run, call, memTy, memKind, preds, code, insts, chain, repl, Uses, oob, EltNo,
                   NonLoadUses, PerBlockInfo, HasAnyEscape, HadError, diags, verdicts>>

\* One iteration of the second loop of doIt on a Load use (the entries of
\* other kinds are passed over).
promoteLoadUse ==
    /\ pc = "phase2"
    /\ i < Len(CurUses)
    /\ LET Id == CurUse.inst
           r == promoteLoad(memTy, insts, PerBlockInfo, NonLoadUses, HasAnyEscape, code, Id)
           ids == [n \in 1..Len(r.made) |-> Len(insts) + n]
       IN  /\ IF r.what = "promoted"
              THEN /\ insts' = insts \o r.made
                   /\ repl' = [repl EXCEPT ![Id] = r.val] \o [n \in 1..Len(r.made) |-> NoVal]
                   /\ code' = eraseFromParent(InsertBefore(code, Id, ids), Id)
              ELSE UNCHANGED <<insts, repl, code>>
           /\ IF r.what = "assert"
              THEN pc' = "aborted" /\ i' = i
              ELSE pc' = "phase2" /\ i' = NextLoad(CurUses, i + 1)
    /\ UNCHANGED <<run, call, memTy, memKind, preds, chain, Uses, oob, EltNo, NonLoadUses,
                   PerBlockInfo, HasAnyEscape, HadError, diags, verdicts>>

\* doIt returns after the second loop.
EndElement ==
    /\ pc = "phase2"
    /\ i = Len(CurUses)
    /\ pc' = "element"
    /\ EltNo' = EltNo + 1
    /\ i' = 0
    /\ UNCHANGED <<run, call, memTy, memKind, preds, code, insts, chain, repl, Uses, oob,
                   NonLoadUses, PerBlockInfo, HasAnyEscape, HadError, diags, verdicts>>

\* Whether an instruction still uses the memory object.
use_empty(c, is) ==
    \A id \in 1..Len(is) : IsAlive(c, id) => is[id].op = "destroy_value"

\* All elements are processed: checkDefiniteInitialization erases an
\* alloc_box without uses and goes on.
FinishAlloc ==
    /\ pc = "element"
    /\ EltNo = Len(Uses)
    /\ code' = IF memKind = "alloc_box" /\ use_empty(code, insts)
               THEN eraseFromParent(code, TheMemory) ELSE code
    /\ pc' = "lower"
    /\ UNCHANGED <<run, call, memTy, memKind, preds, insts, chain, repl, Uses, oob, EltNo,
                   NonLoadUses, PerBlockInfo, HasAnyEscape, HadError, i, diags, verdicts>>

\* The first assign left in the function, in block and instruction order, or 0.
FirstAssign(c, is) ==
    LET at == {<<b, k>> \in (1..Len(c)) \X (1..(Len(is) + 1)) :
                  k <= Len(c[b]) /\ OpOf(is, c[b][k]) = "assign"}
    IN  IF at = {} THEN 0
        ELSE LET m == CHOOSE x \in at :
                        \A y \in at : x[1] < y[1] \/ (x[1] = y[1] /\ x[2] <= y[2])
             IN  c[m[1]][m[2]]

\* A lowering that leaves the assigns where they are.
lowerAssigns_Skip(st, T) == st

RECURSIVE lowerAssigns(_, _)
\* Unprocessed assigns just lower into assignments, not initializations.
lowerAssigns(st, T) ==
    IF FirstAssign(st.code, st.insts) = 0 THEN st
    ELSE lowerAssigns(
             LowerAssignInstruction(st, T, FirstAssign(st.code, st.insts), FALSE).st, T)

\* lowerRawSILOperations: lower the assigns left, resolve mark_uninitialized
\* to its operand and zap mark_function_escape.
lowerRawSILOperations ==
    /\ pc = "lower"
    /\ LET st == lowerAssigns([code |-> code, insts |-> insts, repl |-> repl], memTy)
           zap == {id \in 1..Len(st.insts) : st.insts[id].op = "mark_function_escape"}
                  \cup (IF memKind = "mark_uninitialized" THEN {TheMemory} ELSE {})
       IN  /\ insts' = st.insts
           /\ repl' = st.repl
           /\ code' = [b \in 1..Len(st.code) |->
                          SelectSeq(st.code[b], LAMBDA id : id \notin zap)]
    /\ pc' = "done"
    /\ UNCHANGED <<run, call, memTy, memKind, preds, chain, Uses, oob, EltNo, NonLoadUses,
                   PerBlockInfo, HasAnyEscape, HadError, i, diags, verdicts>>

Next ==
    \/ CollectUses
    \/ StartElement
    \/ handleLoadUse
    \/ handleStoreUse
    \/ handleInOutUse
    \/ handleEscape
    \/ handleRelease
    \/ EndPhase1
    \/ promoteLoadUse
    \/ EndElement
    \/ FinishAlloc
    \/ lowerRawSILOperations

\* ------------------------------------------------------------------------
\* The inputs: functions the pass can be run on
\* ------------------------------------------------------------------------

\* A use instruction to place: opcode, address operand, isInitializationOfDest
\* and the operand number at which the address is used.
Item(o, a, f, n) == [op |-> o, addr |-> a, flag |-> f, opnd |-> n]

\* The instruction for an item; a stored value is a fresh value of the type
\* the destination points to.
MkInst(it, id, T) ==
    Inst(it.op, it.addr,
         IF it.op \in {"store", "assign", "store_weak"} /\ it.opnd = 1
         THEN SrcVal(id, PointeeType(T, it.addr)) ELSE NoVal,
         it.flag, it.opnd)

RECURSIVE IdsIn(_, _, _)
\* The instructions placed in block b, in instruction order.
IdsIn(bbs, k, b) ==
    IF k > Len(bbs) THEN <<>>
    ELSE (IF bbs[k] = b THEN <<k>> ELSE <<>>) \o IdsIn(bbs, k + 1, b)

\* The kind of memory object the uses belong to.
KindFor(items) ==
    IF \E k \in 1..Len(items) : items[k].op = "dealloc_stack" THEN "alloc_stack"
    ELSE IF \E k \in 1..Len(items) : items[k].op = "mark_function_escape"
    THEN "mark_uninitialized"
    ELSE "alloc_box"

\* The state before the pass runs on the memory object of type T in a
\* function with predecessor lists P, use instructions items placed in the
\* blocks bbs (in instruction order) and with use list order.
InitWith(T, P, items, bbs, order) ==
    /\ memTy = T
    /\ memKind = KindFor(items)
    /\ preds = P
    /\ insts = [k \in 1..Len(items) |-> MkInst(items[k], k, T)]
    /\ code = [b \in 1..Len(P) |->
                  (IF b = MemoryBlock THEN <<TheMemory>> ELSE <<>>) \o IdsIn(bbs, 1, b)]
    /\ chain = order
    /\ repl = [k \in 1..Len(items) |-> NoVal]
    /\ Uses = <<>>
    /\ oob = FALSE
    /\ EltNo = 0
    /\ NonLoadUses = {}
    /\ PerBlockInfo = [b \in 1..Len(P) |-> LiveOutBlockState("Unknown", FALSE, "IsUnknown")]
    /\ HasAnyEscape = FALSE
    /\ HadError = FALSE
    /\ i = 0
    /\ pc = "collect"
    /\ diags = <<>>
    /\ verdicts = <<>>
    /\ run = 1
    /\ fn = "pass"
    /\ arg = <<>>
    /\ res = <<>>
    /\ stack = <<>>
    /\ entered = <<>>

Perms(n) == {f \in [1..n -> 1..n] : \A a, b \in 1..n : f[a] = f[b] => a = b}

NonDecreasing(f) == \A a, b \in DOMAIN f : a <= b => f[a] <= f[b]

Reverse(s) == [k \in 1..Len(s) |-> s[Len(s) + 1 - k]]

\* Control flow graphs, as predecessor lists; block 1 is the entry block.
OneBlock == << <<>> >>

Line == << <<>>, <<1>>, <<2>> >>

\* if/else: 2 and 3 are the branches, 4 the merge.
Diamond == << <<>>, <<1>>, <<1>>, <<2, 3>> >>

\* 2 loops on itself, 3 is the exit.
SelfLoop == << <<>>, <<1, 2>>, <<2>> >>

\* 2 is the header, 3 the body, 4 the exit.
LoopBody == << <<>>, <<1, 3>>, <<2>>, <<2>> >>

\* 2 is the header, 3 the body; 4 is left from the body, 5 from the header.
LoopTwoExits == << <<>>, <<1, 3>>, <<2>>, <<3>>, <<2>> >>

Shapes == {Line, Diamond, SelfLoop, LoopBody, LoopTwoExits}

\* Each shape, with its predecessor lists in both orders.
CFGs == Shapes \cup {[b \in 1..Len(P) |-> Reverse(P[b])] : P \in Shapes}

\* The uses of a scalar memory object in the multi-block inputs.
CFGItems ==
    { Item("load", <<>>, FALSE, 0),
      Item("assign", <<>>, FALSE, 1),
      Item("store", <<>>, FALSE, 1),
      Item("apply_inout", <<>>, FALSE, 0),
      Item("apply", <<>>, FALSE, 0),
      Item("strong_release", <<>>, FALSE, 0) }

InitCFG ==
    \E P \in CFGs : \E n \in 0..MaxUsesCFG :
    \E items \in [1..n -> CFGItems] : \E bbs \in [1..n -> 1..Len(P)] :
    \E order \in Perms(n) :
        /\ NonDecreasing(bbs)
        /\ InitWith(RefTy, P, items, bbs, order)

Spec == InitCFG /\ [][Next]_vars

\* One-block inputs: memory objects of scalar, tuple and struct type.

\* (Int, Ref), unnamed fields.
Tup2 == TupleTy(<<Field("", IntTy), Field("", RefTy)>>)

\* struct { x: Int, y: Int }
StructXY == StructTy(<<Field("x", IntTy), Field("y", IntTy)>>)

\* (s: StructXY, Ref)
TupStruct == TupleTy(<<Field("s", StructXY), Field("", RefTy)>>)

\* ((Int, Ref), n: Int)
Nest == TupleTy(<<Field("", Tup2), Field("n", IntTy)>>)

X == <<Step("struct", 0)>>

Y == <<Step("struct", 1)>>

T0 == <<Step("tuple", 0)>>

T1 == <<Step("tuple", 1)>>

Root == <<>>

\* The uses placed in a memory object of type T.
LocalItems(T) ==
    IF T = RefTy
    THEN { Item("load", Root, FALSE, 0), Item("load_weak", Root, FALSE, 0),
           Item("copy_addr", Root, FALSE, 0),
           Item("store", Root, FALSE, 1), Item("assign", Root, FALSE, 1),
           Item("copy_addr", Root, FALSE, 1),
           Item("apply_inout", Root, FALSE, 0), Item("apply", Root, FALSE, 0),
           Item("strong_release", Root, FALSE, 0) }
    ELSE IF T = IntTy
    THEN { Item("load", Root, FALSE, 0), Item("store", Root, FALSE, 1),
           Item("assign", Root, FALSE, 1) }
    ELSE IF T = Tup2
    THEN { Item("load", a, FALSE, 0) : a \in {Root, T0, T1} } \cup
         { Item("store", a, FALSE, 1) : a \in {Root, T0, T1} } \cup
         { Item("assign", Root, FALSE, 1), Item("strong_release", Root, FALSE, 0) }
    ELSE IF T = StructXY
    THEN { Item("load", a, FALSE, 0) : a \in {Root, X} } \cup
         { Item("store", a, FALSE, 1) : a \in {Root, X, Y} } \cup
         { Item("apply_result", Root, FALSE, 0), Item("apply_inout", Root, FALSE, 0),
           Item("strong_release", Root, FALSE, 0) }
    ELSE IF T = TupStruct
    THEN { Item("load", a, FALSE, 0) : a \in {Root, T0, T0 \o X} } \cup
         { Item("store", a, FALSE, 1) : a \in {Root, T0, T0 \o X, T1} } \cup
         { Item("strong_release", Root, FALSE, 0) }
    ELSE { Item("load", a, FALSE, 0) : a \in {Root, T0} } \cup
         { Item("store", a, FALSE, 1) : a \in {T0, T0 \o T0, T0 \o T1, T1} } \cup
         { Item("strong_release", Root, FALSE, 0) }

LocalTypes == {RefTy, IntTy, Tup2, StructXY, TupStruct, Nest}

\* The use list orders tried: all of them for a scalar, the instruction
\* order and its reverse for an aggregate.
LocalOrders(T, n) ==
    IF T \in {RefTy, IntTy} THEN Perms(n)
    ELSE {[k \in 1..n |-> k], [k \in 1..n |-> n + 1 - k]}

InitLocal ==
    \E T \in LocalTypes : \E n \in 0..MaxUsesLocal :
    \E items \in [1..n -> LocalItems(T)] : \E order \in LocalOrders(T, n) :
        InitWith(T, OneBlock, items, [k \in 1..n |-> 1], order)

SpecLocal == InitLocal /\ [][Next]_vars

\* ------------------------------------------------------------------------
\* Reference semantics: what the paths of the function do to the element
\* ------------------------------------------------------------------------

\* The instructions of the current element that store to it.
StoreInsts(uses) ==
    {uses[k].inst : k \in {j \in 1..Len(uses) : uses[j].kind \in {"Store", "PartialStore"}}}

\* Block b holds one of the instructions of S (after TheMemory).
HasIn(c, S, b) == \E k \in 1..Len(c[b]) : c[b][k] \in S

\* Block b holds one of the instructions of S before position pos.
HasBefore(c, S, b, pos) == \E k \in 1..(pos - 1) : c[b][k] \in S

\* The blocks some path from TheMemory enters without having passed an
\* instruction of S: the least set closed under the successor relation.
RECURSIVE UninitIn(_, _, _, _)
UninitIn(c, P, S, In) ==
    LET out == {b \in 1..Len(c) : ~HasIn(c, S, b) /\ (b = MemoryBlock \/ b \in In)}
        more == {b \in 1..Len(c) : \E k \in 1..Len(P[b]) : P[b][k] \in out}
    IN  IF more \subseteq In THEN In ELSE UninitIn(c, P, S, In \cup more)

\* Every path from TheMemory to the instruction id passes an instruction of S.
DominatedBy(c, P, S, id) ==
    LET b == getParent(c, id)
        pos == IndexOf(c[b], id, 1)
    IN  \/ HasBefore(c, S, b, pos)
        \/ (b # MemoryBlock /\ b \notin UninitIn(c, P, S, {}))

\* The blocks some path from TheMemory enters after an instruction of S.
RECURSIVE InitIn(_, _, _, _)
InitIn(c, P, S, In) ==
    LET out == {b \in 1..Len(c) : HasIn(c, S, b) \/ (b # MemoryBlock /\ b \in In)}
        more == {b \in 1..Len(c) : \E k \in 1..Len(P[b]) : P[b][k] \in out}
    IN  IF more \subseteq In THEN In ELSE InitIn(c, P, S, In \cup more)

\* Some path from TheMemory to the instruction id passes an instruction of S.
ReachedFrom(c, P, S, id) ==
    LET b == getParent(c, id)
        pos == IndexOf(c[b], id, 1)
    IN  \/ HasBefore(c, S, b, pos)
        \/ (b # MemoryBlock /\ b \in InitIn(c, P, S, {}))

\* ------------------------------------------------------------------------
\* Properties
\* ------------------------------------------------------------------------

\* C1: when phase 1 of an element has ended without a diagnostic, every
\* Load, InOutUse, Escape and Release use of the element is preceded by a
\* Store use of it on every path from the allocation to that use.
C1_Soundness ==
    pc = "phase2" =>
        \A k \in 1..Len(CurUses) :
            (/\ CurUses[k].kind \in {"Load", "InOutUse", "Escape", "Release"}
             /\ IsAlive(code, CurUses[k].inst))
            => DominatedBy(code, preds, StoreInsts(CurUses), CurUses[k].inst)

\* C2: when phase 1 lowers an assign as an initialization (the answer of
\* checkDefinitelyInit was DI_No), no path from the allocation to the assign
\* passes a store to the element.
C2_InitOnlyIfUninitOnAllPaths ==
    [][(/\ AtUse({"Store", "PartialStore"})
        /\ insts[CurUse.inst].op = "assign"
        /\ Len(verdicts') = Len(verdicts) + 1
        /\ verdicts'[Len(verdicts')].di = "DI_No"
        /\ ~IsAlive(code', CurUse.inst))
       => ~ReachedFrom(code, preds, StoreInsts(CurUses), CurUse.inst)]_vars

\* The assigns a step lowers: alive before it, erased by it.
Lowered ==
    {a \in 1..Len(insts) : insts[a].op = "assign" /\ IsAlive(code, a) /\ ~IsAlive(code', a)}

\* What a block looks like: the instructions that existed before (ids up to
\* old) by id, the new ones by opcode, address and stored value; loaded says
\* that a destroy_value releases the result of the load two places before it.
Rendered(c, is, T, b, old) ==
    [j \in 1..Len(c[b]) |->
        LET x == c[b][j]
        IN  IF x <= old
            THEN [op |-> "old", id |-> x, addr |-> <<>>, val |-> NoVal, loaded |-> FALSE]
            ELSE [op |-> is[x].op, id |-> 0, addr |-> is[x].addr,
                  val |-> IF is[x].op = "store" THEN is[x].val ELSE NoVal,
                  loaded |-> /\ is[x].op = "destroy_value"
                             /\ j >= 3
                             /\ c[b][j - 2] > old
                             /\ is[c[b][j - 2]].op = "load"
                             /\ is[x].val = LoadVal(c[b][j - 2],
                                                    PointeeType(T, is[c[b][j - 2]].addr))]]

\* What the claim says a block looks like after the step, when the lowered
\* assigns were lowered with isInit.
RECURSIVE Expected(_, _, _)
Expected(b, j, isInit) ==
    IF j > Len(code[b]) THEN <<>>
    ELSE LET a == code[b][j]
             new(o, v, l) == [op |-> o, id |-> 0, addr |-> insts[a].addr, val |-> v,
                              loaded |-> l]
             st == new("store", insts[a].val, FALSE)
         IN  (IF a \in Lowered
              THEN IF isInit \/ isTrivial(PointeeType(memTy, insts[a].addr))
                   THEN <<st>>
                   ELSE <<new("load", NoVal, FALSE), st,
                          [new("destroy_value", NoVal, TRUE) EXCEPT !.addr = <<>>]>>
              ELSE IF IsAlive(code', a)
              THEN <<[op |-> "old", id |-> a, addr |-> <<>>, val |-> NoVal,
                      loaded |-> FALSE]>>
              ELSE <<>>)
             \o Expected(b, j + 1, isInit)

\* C3: a step of phase 1 or of lowerRawSILOperations that lowers an assign
\* puts in its place exactly one store of its value to its address when it
\* is lowered as an initialization (phase 1 got DI_No) or the destination
\* type is trivial, and otherwise a load of the address, the store, and the
\* destroy of the loaded value, in that order; the assign is erased.
C3_LoweringShape ==
    [][(pc \in {"phase1", "lower"} /\ Lowered # {}) =>
          \A b \in Blocks :
              Rendered(code', insts', memTy, b, Len(insts)) =
                  Expected(b, 1, /\ pc = "phase1"
                                 /\ Len(verdicts') > 0
                                 /\ verdicts'[Len(verdicts')].di = "DI_No")]_vars

\* Both shapes have been emitted: an assign of a non-trivial type lowered to
\* a lone store, and a destroy_value.
C3_Witness ==
    /\ pc = "done"
    /\ \E d \in 1..Len(insts) : insts[d].op = "destroy_value" /\ IsAlive(code, d)
    /\ \E a \in 1..Len(insts) : \E s \in 1..Len(insts) :
          /\ insts[a].op = "assign" /\ ~isTrivial(PointeeType(memTy, insts[a].addr))
          /\ insts[s].op = "store" /\ insts[s].val = insts[a].val /\ s # a
          /\ IsAlive(code, s)
          /\ LET b == getParent(code, s)
                 k == IndexOf(code[b], s, 1)
             IN  k = Len(code[b]) \/ insts[code[b][k + 1]].op # "destroy_value"

\* The input is one block of two or more assigns to a scalar of non-trivial
\* type and nothing else.
OnlyAssigns ==
    /\ Len(preds) = 1
    /\ memTy.k = "prim" /\ ~isTrivial(memTy)
    /\ Len(chain) >= 2
    /\ \A k \in 1..Len(chain) : insts[k].op = "assign"

\* Phase 1 of the element has just ended: no load is promoted yet.
Phase1Done ==
    pc = "phase2" /\ \A id \in 1..Len(repl) : repl[id] = NoVal

\* The block the claim describes: the store of the first assign, then a
\* load, store and destroy for each later one.
RECURSIVE C4_Block(_)
C4_Block(k) ==
    LET new(o, v, l) == [op |-> o, id |-> 0, addr |-> <<>>, val |-> v, loaded |-> l]
    IN  IF k = 0
        THEN <<[op |-> "old", id |-> TheMemory, addr |-> <<>>, val |-> NoVal,
                loaded |-> FALSE]>>
        ELSE IF k = 1 THEN C4_Block(0) \o <<new("store", insts[1].val, FALSE)>>
        ELSE C4_Block(k - 1) \o <<new("load", NoVal, FALSE),
                                  new("store", insts[k].val, FALSE),
                                  new("destroy_value", NoVal, TRUE)>>

\* C4: in one block of two or more assigns to the same element of
\* non-trivial type, phase 1 lowers the first assign in instruction order to
\* a single store and every later one to load, store, destroy, whatever the
\* order of the use list.
C4_FirstAssignInitializes ==
    (OnlyAssigns /\ Phase1Done) =>
        Rendered(code, insts, memTy, 1, 0) = C4_Block(Len(chain))

\* Three assigns whose use list starts with the last one.
C4_Witness ==
    OnlyAssigns /\ Phase1Done /\ chain = <<3, 1, 2>>

\* The error diagnostics emitted for element e.
ErrorsOf(e) ==
    {k \in 1..Len(diags) : diags[k].elt = e /\ diags[k].kind # "variable_defined_here"}

\* C5: at most one error diagnostic per element, and a step that checks a
\* use, lowers an assign in phase 1 or replaces a load in phase 2 works on
\* an element for which no error has been emitted.
C5_OneErrorPerElement ==
    /\ [](\A e \in 0..(getTupleElementCount(memTy) - 1) : Cardinality(ErrorsOf(e)) <= 1)
    /\ [][(/\ pc \in {"phase1", "phase2"}
           /\ \/ verdicts' # verdicts
              \/ code' # code
              \/ repl' # repl
              \/ diags' # diags)
          => ErrorsOf(EltNo) = {}]_vars

\* An error at the first use of element 0 left an assign of that element
\* unchecked and alive, and the pass now works on element 1.
C5_Witness ==
    /\ pc = "phase2" /\ EltNo = 1
    /\ Len(Uses[1]) >= 2
    /\ \E k \in ErrorsOf(0) : diags[k].inst = Uses[1][1].inst
    /\ \E k \in 2..Len(Uses[1]) :
          /\ insts[Uses[1][k].inst].op \in {"assign", "load"}
          /\ IsAlive(code, Uses[1][k].inst)

\* C10: phase 2 replaces or erases a load only when the use list of the
\* element holds no Escape use and the use is a load instruction; a
\* load_weak or another Load use that is not a load instruction is never
\* replaced or erased.
C10_NoPromotionAfterEscape ==
    /\ [](\A id \in 1..Len(insts) :
             insts[id].op \notin {"load", "assign", "store"} =>
                 repl[id] = NoVal /\ (pc # "done" => IsAlive(code, id)))
    /\ [][(pc = "phase2" /\ (repl' # repl \/ code' # code)) =>
             /\ \A k \in 1..Len(CurUses) : CurUses[k].kind # "Escape"
             /\ insts[CurUse.inst].op = "load"
             /\ ~IsAlive(code', CurUse.inst)
             /\ \A id \in 1..Len(insts) :
                   id # CurUse.inst => repl'[id] = repl[id] /\ IsAlive(code', id) = IsAlive(code, id)]_vars

\* Phase 2 of an element with an Escape use is over, and the load right
\* after a store is still there.
C10_Witness ==
    /\ pc = "phase2" /\ i = Len(CurUses)
    /\ \E k \in 1..Len(CurUses) : CurUses[k].kind = "Escape"
    /\ \E k \in 1..Len(CurUses) :
          LET L == CurUses[k].inst
          IN  /\ CurUses[k].kind = "Load" /\ insts[L].op = "load"
              /\ IsAlive(code, L) /\ repl[L] = NoVal
              /\ LET pos == IndexOf(code[1], L, 1)
                 IN  pos >= 2 /\ OpOf(insts, code[1][pos - 1]) = "store"

\* A heap box of struct {x, y}: a store to one field through a
\* struct_element_addr, then the release of the box; the pass is over.
C6_Scenario ==
    /\ memTy = StructXY /\ memKind = "alloc_box"
    /\ Len(chain) = 2
    /\ insts[1].op = "store" /\ insts[1].addr = X
    /\ insts[2].op = "strong_release"
    /\ pc = "done"

\* C6 as stated: the release is diagnosed with
\* variable_destroyed_before_initialized and the name carries the path '.y'.
C6_AsStated ==
    C6_Scenario =>
        \E k \in 1..Len(diags) :
            /\ diags[k].kind = "variable_destroyed_before_initialized"
            /\ diags[k].inst = 2
            /\ diags[k].name = MemoryName \o ".y"

\* C6, amended: the struct is one element, so the store into the field of
\* the uninitialized struct is what is diagnosed, with
\* struct_not_fully_initialized and the bare name of the variable; nothing
\* is diagnosed at the release.
C6_PartialStoreDiagnosed ==
    C6_Scenario =>
        /\ Len(diags) = 2
        /\ diags[1] = [kind |-> "struct_not_fully_initialized", inst |-> 1, elt |-> 0,
                       name |-> MemoryName]
        /\ diags[2].kind = "variable_defined_here"

C6_Witness ==
    C6_Scenario /\ chain = <<2, 1>> /\ diags # <<>>

\* The addresses of the elements of a tuple type, in element order.
RECURSIVE TupleLeaves(_, _)
RECURSIVE TupleLeavesOfFields(_, _, _)
TupleLeavesOfFields(T, addr, n) ==
    IF n > Len(T.fields) THEN <<>>
    ELSE TupleLeaves(T.fields[n].ty, addr \o <<Step("tuple", n - 1)>>)
         \o TupleLeavesOfFields(T, addr, n + 1)

TupleLeaves(T, addr) ==
    IF T.k = "tuple" THEN TupleLeavesOfFields(T, addr, 1) ELSE <<addr>>

\* The path of an address, as the diagnostics spell it: the field name, or
\* the ordinal of a field without a name, after a dot, for each step.
RECURSIVE PathName(_, _)
PathName(T, addr) ==
    IF addr = <<>> THEN ""
    ELSE LET Fld == T.fields[Head(addr).idx + 1]
         IN  "." \o (IF Fld.name # "" THEN Fld.name ELSE ToString(Head(addr).idx))
             \o PathName(Fld.ty, Tail(addr))

\* The part of the value v that lies at the relative address rel.
RECURSIVE Component(_, _)
Component(v, rel) ==
    IF rel = <<>> THEN v ELSE Component(ExtractVal(v, Head(rel).idx), Tail(rel))

\* One block: stores to element addresses of a tuple, then one load of the
\* whole tuple; the pass is over.
C7_Scenario ==
    /\ Len(preds) = 1 /\ memTy.k = "tuple"
    /\ Len(chain) >= 2
    /\ insts[Len(chain)].op = "load" /\ insts[Len(chain)].addr = Root
    /\ \A k \in 1..(Len(chain) - 1) :
          /\ insts[k].op = "store" /\ insts[k].addr # Root
          /\ \A j \in 1..Len(insts[k].addr) : insts[k].addr[j].k = "tuple"
    /\ pc = "done"

\* The load of address addr and tuple type T was replaced by v: a tuple of
\* one new load per field, those of tuple type replaced in the same way.
RECURSIVE Scalarized(_, _, _)
Scalarized(v, T, addr) ==
    /\ v.k = "agg" /\ v.ty = T /\ Len(v.sub) = Len(T.fields)
    /\ \A j \in 1..Len(T.fields) :
          LET w == v.sub[j]
              a == addr \o <<Step("tuple", j - 1)>>
          IN  /\ w.k = "load" /\ w.n > Len(chain)
              /\ insts[w.n].op = "load" /\ insts[w.n].addr = a
              /\ T.fields[j].ty.k = "tuple" =>
                    ~IsAlive(code, w.n) /\ Scalarized(repl[w.n], T.fields[j].ty, a)

\* The stores of the input to the element at address a (or to a tuple it is in).
StoresTo(a) == {k \in 1..(Len(chain) - 1) : IsPrefix(insts[k].addr, a)}

\* The load of the element at address a that scalarization made.
EltLoad(a) ==
    CHOOSE id \in (Len(chain) + 1)..Len(insts) :
        insts[id].op = "load" /\ insts[id].addr = a

\* C7: the whole-tuple load is replaced by a tuple of one load per element;
\* the load of a stored element is promoted to the value last stored to it
\* and the element gets no diagnostic; an element without a store gets
\* exactly one variable_used_before_initialized, at its load, named by the
\* path of the element.
C7_TupleLoadSplit ==
    C7_Scenario =>
        /\ ~IsAlive(code, Len(chain))
        /\ Scalarized(repl[Len(chain)], memTy, Root)
        /\ LET leaves == TupleLeaves(memTy, Root)
           IN  \A e \in 1..Len(leaves) :
                 LET a == leaves[e]
                     L == EltLoad(a)
                     last == CHOOSE k \in StoresTo(a) : \A j \in StoresTo(a) : j <= k
                 IN  IF StoresTo(a) # {}
                     THEN /\ ErrorsOf(e - 1) = {}
                          /\ ~IsAlive(code, L)
                          /\ repl[L] = Component(insts[last].val,
                                                 SubSeq(a, Len(insts[last].addr) + 1, Len(a)))
                     ELSE /\ Cardinality(ErrorsOf(e - 1)) = 1
                          /\ \A k \in ErrorsOf(e - 1) :
                                /\ diags[k].kind = "variable_used_before_initialized"
                                /\ diags[k].inst = L
                                /\ diags[k].name = MemoryName \o PathName(memTy, a)
                          /\ IsAlive(code, L) /\ repl[L] = NoVal

\* ((Int, Ref), n: Int) with a store to the inner tuple and none to n.
C7_Witness ==
    /\ C7_Scenario /\ memTy = Nest
    /\ StoresTo(T0 \o T1) # {} /\ StoresTo(T1) = {}
    /\ \E k \in ErrorsOf(2) : diags[k].name = "a.n"

\* The blocks are numbered in a topological order: the CFG has no cycle.
Acyclic == \A b \in Blocks : \A k \in 1..Len(preds[b]) : preds[b][k] < b

\* The stores and assigns of the function.
StoresAlive ==
    {id \in 1..Len(insts) : IsAlive(code, id) /\ insts[id].op \in {"store", "assign"}}

\* The load L has nothing but loads before it in its block, and some path
\* from the allocation to it passes no store.
C8_Case(L) ==
    /\ insts[L].op = "load" /\ IsAlive(code, L)
    /\ LET b == getParent(code, L)
       IN  \A j \in 1..(IndexOf(code[b], L, 1) - 1) :
              code[b][j] = TheMemory \/ insts[code[b][j]].op = "load"
    /\ ~DominatedBy(code, preds, StoresAlive, L)

\* No step of phase 2 replaces a load that is in the case of C8.
C8_NotPromoted ==
    [][(pc = "phase2" /\ i < Len(CurUses) /\ Acyclic /\ C8_Case(CurUse.inst))
       => (code' = code /\ repl' = repl)]_vars

RECURSIVE FirstSubEltOf(_, _)
FirstSubEltOf(T, addr) ==
    IF addr = <<>> THEN 0
    ELSE NumSubElementsOfFields(T.fields, Head(addr).idx)
         + FirstSubEltOf(T.fields[Head(addr).idx + 1].ty, Tail(addr))

\* A value as a part of a value that is not an extract: which value, and
\* the number of the first sub-element of it.
RECURSIVE PartOf(_)
PartOf(v) ==
    IF v.k = "extract"
    THEN LET in == PartOf(v.sub[1])
         IN  [base |-> in.base,
              idx |-> in.idx + NumSubElementsOfFields(v.sub[1].ty.fields, v.n)]
    ELSE [base |-> v, idx |-> 0]

\* The sub-elements of a value, in order, each as a part of a value.
RECURSIVE SubElementsOf(_)
RECURSIVE SubElementsOfAll(_, _)
SubElementsOfAll(vs, n) ==
    IF n > Len(vs) THEN <<>> ELSE SubElementsOf(vs[n]) \o SubElementsOfAll(vs, n + 1)

SubElementsOf(v) ==
    IF v.k = "agg" THEN SubElementsOfAll(v.sub, 1)
    ELSE [j \in 1..getNumSubElements(v.ty) |->
             [base |-> PartOf(v).base, idx |-> PartOf(v).idx + j - 1]]

\* The instruction id is a use of the memory object that is neither a load
\* nor a store: the allocation itself, or a use that may write all of it.
Clobbers(id) ==
    \/ id = TheMemory
    \/ /\ insts[id].op \notin {"load", "load_weak", "destroy_value", "store", "assign"}
       /\ ~(insts[id].op = "copy_addr" /\ insts[id].opnd = 0)

\* The store (or assign not lowered yet) id writes sub-element e of the
\* memory object.
StoresSubElt(id, e) ==
    /\ id # TheMemory /\ insts[id].op \in {"store", "assign"}
    /\ LET first == FirstSubEltOf(memTy, insts[id].addr)
       IN  first <= e /\ e < first + getNumSubElements(insts[id].val.ty)

\* The place in block, at pos or before, of the closest instruction that
\* stores sub-element e or clobbers the object.
RECURSIVE ClosestAccess(_, _, _)
ClosestAccess(block, pos, e) ==
    IF pos = 0 THEN 0
    ELSE IF StoresSubElt(block[pos], e) \/ Clobbers(block[pos])
    THEN pos
    ELSE ClosestAccess(block, pos - 1, e)

\* C9: a step of phase 2 that replaces a load gives it a value of the type
\* of the load; each sub-element of that value is the matching sub-element
\* of the value of the closest store to that sub-element before the load in
\* its block, when no use that is neither a load nor a store lies between
\* them, and otherwise the result of a new load of the address of that
\* sub-element, put where the replaced load was.
C9_PromotionSound ==
    [][(pc = "phase2" /\ repl' # repl) =>
          LET L == CurUse.inst
              b == getParent(code, L)
              pos == IndexOf(code[b], L, 1)
              first == FirstSubEltOf(memTy, insts[L].addr)
              got == SubElementsOf(repl'[L])
              fresh == (Len(insts) + 1)..Len(insts')
          IN  /\ repl'[L].ty = PointeeType(memTy, insts[L].addr)
              /\ Len(got) = getNumSubElements(repl'[L].ty)
              /\ code' = [code EXCEPT ![b] =
                            SubSeq(@, 1, pos - 1)
                            \o [n \in 1..(Len(insts') - Len(insts)) |-> Len(insts) + n]
                            \o SubSeq(@, pos + 1, Len(@))]
              /\ \A n \in 1..Len(got) :
                    LET e == first + n - 1
                        at == ClosestAccess(code[b], pos - 1, e)
                    IN  IF at # 0 /\ StoresSubElt(code[b][at], e)
                        THEN LET S == insts[code[b][at]]
                             IN  got[n] =
                                    [base |-> PartOf(S.val).base,
                                     idx |-> PartOf(S.val).idx + e
                                             - FirstSubEltOf(memTy, S.addr)]
                        ELSE /\ got[n].base.k = "load"
                             /\ got[n].base.n \in fresh
                             /\ insts'[got[n].base.n].op = "load"
                             /\ FirstSubEltOf(memTy, insts'[got[n].base.n].addr)
                                   + got[n].idx = e]_vars

\* A load of a struct was replaced by a struct of the value stored to its
\* first field and of a new load of its second field.
C9_Witness ==
    /\ pc = "phase2"
    /\ \E L \in 1..Len(insts) :
          /\ repl[L].k = "agg" /\ repl[L].ty.k = "struct"
          /\ repl[L].sub[1].k = "src"
          /\ repl[L].sub[2].k = "load" /\ IsAlive(code, repl[L].sub[2].n)

\* The sub-elements of the memory object the load L demands.
Demanded(L) ==
    LET first == FirstSubEltOf(memTy, insts[L].addr)
    IN  first..(first + getNumSubElements(PointeeType(memTy, insts[L].addr)) - 1)

\* The block of the load L holds, before L, a store to sub-element e with
\* nothing that clobbers the object after it.
Satisfied(L, e) ==
    LET b == getParent(code, L)
        at == ClosestAccess(code[b], IndexOf(code[b], L, 1) - 1, e)
    IN  at # 0 /\ StoresSubElt(code[b][at], e)

\* Phase 2 is at a load instruction.
AtPromotion ==
    pc = "phase2" /\ i < Len(CurUses) /\ insts[CurUse.inst].op = "load"

IRUnchanged == code' = code /\ repl' = repl /\ insts' = insts

\* C11 as stated: a load is left in place, with the IR unchanged, whenever
\* the stores of its block do not satisfy every sub-element it demands.
C11_AsStated ==
    [][(AtPromotion /\ \E e \in Demanded(CurUse.inst) : ~Satisfied(CurUse.inst, e))
       => IRUnchanged]_vars

\* C11, amended: a load is left in place, with the IR unchanged, when the
\* stores of its block satisfy none of the sub-elements it demands (no other
\* block is looked at); when they satisfy at least one, and the element has
\* not escaped, the load is replaced and erased, a sub-element that is not
\* satisfied being read by a new load.
C11_FailsOnlyWhenNothingFound ==
    [][AtPromotion =>
          LET L == CurUse.inst
              some == \E e \in Demanded(L) : Satisfied(L, e)
          IN  /\ ~some => IRUnchanged
              /\ (some /\ ~HasAnyEscape) =>
                    /\ repl'[L] # NoVal /\ ~IsAlive(code', L)
                    /\ Len(insts') - Len(insts) =
                          Cardinality({e \in Demanded(L) : ~Satisfied(L, e)})]_vars

\* A load of a struct was replaced although only its second field was
\* stored after the call that initialized it: the first field is read by a
\* new load.
C11_Witness ==
    /\ pc = "phase2"
    /\ \E L \in 1..Len(insts) :
          /\ repl[L].k = "agg" /\ repl[L].ty = StructXY
          /\ repl[L].sub[1].k = "load" /\ IsAlive(code, repl[L].sub[1].n)
          /\ insts[repl[L].sub[1].n].addr = X
          /\ repl[L].sub[2].k = "src"

\* ------------------------------------------------------------------------
\* The type helpers on their own: calls on types of nested tuples and structs
\* ------------------------------------------------------------------------

\* The most fields an aggregate of the types below has.
MaxFields == 2

FieldNames == <<"a", "b", "c", "d">>

PropertyNames == <<"x", "y", "z", "w">>

\* The ways to label the n elements of a tuple: none, all, the first only.
TupleLabels(n) ==
    { [k \in 1..n |-> ""], [k \in 1..n |-> FieldNames[k]],
      [k \in 1..n |-> IF k = 1 THEN FieldNames[1] ELSE ""] }

\* The tuples and the structs whose fields have the types in Tys.
AggregatesOver(Tys) ==
    UNION { UNION { { TupleTy([k \in 1..n |-> Field(lab[k], tys[k])]) : lab \in TupleLabels(n) }
                    \cup { StructTy([k \in 1..n |-> Field(PropertyNames[k], tys[k])]) }
                    : tys \in [1..n -> Tys] }
            : n \in 1..MaxFields }

Level1 == AggregatesOver({IntTy})

\* Aggregates nested up to two deep.
NestedTypes == AggregatesOver({IntTy} \cup Level1)

\* A call of one of the helpers: the type, the function and its argument.
InitPure ==
    /\ memTy \in NestedTypes
    /\ \/ /\ fn = "getPathStringToElement"
          /\ arg \in { <<n>> : n \in 0..(getNumSubElements(memTy) - 1) }
       \/ /\ fn = "TryComputingAccessPath"
          /\ arg \in AddrPaths(memTy)
    /\ res = <<>>
    /\ pc = "call"
    /\ memKind = "alloc_box"
    /\ preds = << <<>> >>
    /\ insts = <<>>
    /\ code = << <<TheMemory>> >>
    /\ chain = <<>>
    /\ repl = <<>>
    /\ Uses = <<>>
    /\ oob = FALSE
    /\ EltNo = 0
    /\ NonLoadUses = {}
    /\ PerBlockInfo = <<LiveOutBlockState("Unknown", FALSE, "IsUnknown")>>
    /\ HasAnyEscape = FALSE
    /\ HadError = FALSE
    /\ i = 0
    /\ diags = <<>>
    /\ verdicts = <<>>
    /\ run = 1
    /\ stack = <<>>
    /\ entered = <<>>

\* What a call of a helper leaves alone: everything of the pass.
pass == <<memTy, memKind, preds, code, insts, chain, repl, Uses, oob, EltNo, NonLoadUses, PerBlockInfo, HasAnyEscape, HadError, i, diags, verdicts, run, stack, entered>>

ApplyPathString ==
    /\ pc = "call" /\ fn = "getPathStringToElement"
    /\ res' = getPathStringToElement(memTy, arg[1], "")
    /\ pc' = "return"
    /\ UNCHANGED <<pass, fn, arg>>

ApplyAccessPath ==
    /\ pc = "call" /\ fn = "TryComputingAccessPath"
    /\ res' = TryComputingAccessPath(memTy, arg, 0)
    /\ pc' = "return"
    /\ UNCHANGED <<pass, fn, arg>>

NextPure == ApplyPathString \/ ApplyAccessPath

SpecPure == InitPure /\ [][NextPure]_vars

\* The addresses of the leaves of a type, through tuples and structs, depth
\* first and left to right.
RECURSIVE Leaves(_, _)
RECURSIVE LeavesOfFields(_, _, _)
LeavesOfFields(T, addr, n) ==
    IF n > Len(T.fields) THEN <<>>
    ELSE Leaves(T.fields[n].ty, addr \o <<Step(T.k, n - 1)>>)
         \o LeavesOfFields(T, addr, n + 1)

Leaves(T, addr) ==
    IF T.k \in {"tuple", "struct"} THEN LeavesOfFields(T, addr, 1) ELSE <<addr>>

Returned(f) == pc = "return" /\ fn = f

\* C12 as stated: for every index below the number of sub-elements the path
\* string is computed without the out-of-range assertion and is the path of
\* the leaf of that index, counting leaves through tuples and structs.
C12_AsStated ==
    Returned("getPathStringToElement") =>
        /\ res.ok
        /\ res.str = PathName(memTy, Leaves(memTy, <<>>)[arg[1] + 1])

\* C12: the path string is indexed by the elements of the tuple, which stop
\* at structs.  For an index below the number of tuple elements there is no
\* assertion, the string is the path of the tuple element of that index, and
\* no other index gives the same string; an index from there on runs into
\* the assertion in a tuple; a type that is not a tuple has the empty path.
C12_PathOfTupleElement ==
    Returned("getPathStringToElement") =>
        LET T == memTy
            n == arg[1]
            count == getTupleElementCount(T)
        IN  /\ n < count =>
                /\ res.ok
                /\ res.str = PathName(T, TupleLeaves(T, <<>>)[n + 1])
                /\ \A m \in 0..(count - 1) :
                      m # n => getPathStringToElement(T, m, "").str # res.str
            /\ (n >= count /\ T.k = "tuple") => ~res.ok
            /\ T.k # "tuple" => res = [ok |-> TRUE, str |-> ""]

C12_Witness ==
    /\ Returned("getPathStringToElement")
    /\ memTy.k = "tuple" /\ arg[1] = 2 /\ getTupleElementCount(memTy) = 3
    /\ res.str = ".1.b"

\* The index, counted from 0, of the first leaf at or under an address.
FirstLeafUnder(T, addr) ==
    LET ls == Leaves(T, <<>>)
    IN  (CHOOSE k \in 1..Len(ls) :
            /\ IsPrefix(addr, ls[k])
            /\ \A j \in 1..(k - 1) : ~IsPrefix(addr, ls[j])) - 1

\* C13: the access path of an address derived from the root by tuple and
\* struct projections is found, its first sub-element is the depth-first
\* index of the first leaf under the address, it leaves room for all the
\* sub-elements of the pointee within the object, and the addresses of two
\* different leaves have different first sub-elements.
C13_AccessPathRoundTrip ==
    Returned("TryComputingAccessPath") =>
        LET T == memTy
            ls == Leaves(T, <<>>)
        IN  /\ res.found
            /\ res.n = FirstLeafUnder(T, arg)
            /\ res.n + getNumSubElements(PointeeType(T, arg)) <= getNumSubElements(T)
            /\ \A k \in 1..Len(ls) :
                  /\ TryComputingAccessPath(T, ls[k], 0).n = k - 1
                  /\ (\E j \in 1..Len(ls) : ls[j] = arg /\ j # k)
                        => TryComputingAccessPath(T, ls[k], 0).n # res.n

C13_Witness ==
    /\ Returned("TryComputingAccessPath")
    /\ Len(arg) = 2 /\ arg[1].k = "struct" /\ arg[2].k = "tuple"
    /\ arg[1].idx = 1 /\ arg[2].idx = 1
    /\ res = [found |-> TRUE, n |-> 3]

\* ------------------------------------------------------------------------
\* The pass run again on its own output
\* ------------------------------------------------------------------------

\* The most use instructions in the functions the pass is run on twice.
MaxUsesTwice == 2

\* Uses of a memory object, with those of a global (mark_function_escape)
\* and of a stack allocation (dealloc_stack) among them.
TwiceItems(T) ==
    IF T = RefTy
    THEN { Item("load", Root, FALSE, 0), Item("assign", Root, FALSE, 1),
           Item("store", Root, FALSE, 1), Item("copy_addr", Root, FALSE, 1),
           Item("copy_addr", Root, TRUE, 1), Item("apply_inout", Root, FALSE, 0),
           Item("apply", Root, FALSE, 0),
           Item("mark_function_escape", Root, FALSE, 0),
           Item("dealloc_stack", Root, FALSE, 0) }
    ELSE IF T = Tup2
    THEN { Item("load", a, FALSE, 0) : a \in {Root, T1} } \cup
         { Item("assign", a, FALSE, 1) : a \in {Root, T1} } \cup
         { Item("store", T0, FALSE, 1) }
    ELSE { Item("load", a, FALSE, 0) : a \in {Root, X} } \cup
         { Item("store", a, FALSE, 1) : a \in {Root, X} } \cup
         { Item("apply_inout", Root, FALSE, 0), Item("assign", Root, FALSE, 1) }

\* A function escape is marked on a global (mark_uninitialized), which has
\* no dealloc_stack.
OneKind(items) ==
    ~\E j, k \in 1..Len(items) :
        items[j].op = "dealloc_stack" /\ items[k].op = "mark_function_escape"

TwiceCFGs == {OneBlock, Diamond, SelfLoop, LoopTwoExits}

InitTwice ==
    \E T \in {RefTy, Tup2, StructXY} :
    \E P \in (IF T = RefTy THEN TwiceCFGs ELSE {OneBlock}) :
    \E n \in 0..MaxUsesTwice :
    \E items \in [1..n -> TwiceItems(T)] : \E bbs \in [1..n -> 1..Len(P)] :
    \E order \in Perms(n) :
        /\ NonDecreasing(bbs)
        /\ OneKind(items)
        /\ InitWith(T, P, items, bbs, order)

\* The instructions of the function that use the memory object, the ones
\* the pass made first and latest first (a new use goes to the front of the
\* use list), then the ones it was given, in the order they had.
RECURSIVE MadeFirst(_, _, _)
MadeFirst(c, is, id) ==
    IF id = 0 THEN <<>>
    ELSE (IF IsAlive(c, id) /\ is[id].op # "destroy_value" THEN <<id>> ELSE <<>>)
         \o MadeFirst(c, is, id - 1)

UseListAfter(c, is, before) ==
    MadeFirst(c, [id \in 1..Len(is) |-> IF id <= Len(before) THEN Inst("destroy_value", <<>>, NoVal, FALSE, 0) ELSE is[id]], Len(is))
    \o SelectSeq(before, LAMBDA id : IsAlive(c, id))

\* performSILDefiniteInitialization is called again on the function it
\* left: checkDefiniteInitialization looks for the allocations and the
\* mark_uninitialized instructions that are still there.
Rerun ==
    /\ pc = "done"
    /\ run = 1
    /\ run' = 2
    /\ IF IsAlive(code, TheMemory)
       THEN /\ pc' = "collect"
            /\ chain' = UseListAfter(code, insts, chain)
       ELSE /\ pc' = "done"
            /\ chain' = chain
    /\ UNCHANGED <<call, memTy, memKind, preds, code, insts, repl, Uses, oob, EltNo,
                   NonLoadUses, PerBlockInfo, HasAnyEscape, HadError, i, diags, verdicts>>

NextTwice == Next \/ Rerun

SpecTwice == InitTwice /\ [][NextTwice]_vars

RawOps == {"assign", "mark_function_escape"}

NoRawLeft ==
    /\ \A id \in 1..Len(insts) : IsAlive(code, id) => insts[id].op \notin RawOps
    /\ memKind = "mark_uninitialized" => ~IsAlive(code, TheMemory)

DiagFor(kind, op) ==
    CASE kind = "Load" -> "variable_used_before_initialized"
      [] kind = "PartialStore" -> "struct_not_fully_initialized"
      [] kind = "InOutUse" -> "variable_inout_before_initialized"
      [] kind = "Escape" -> IF op = "mark_function_escape"
                            THEN "global_variable_function_use_uninit"
                            ELSE "variable_escape_before_initialized"
      [] kind = "Release" -> "variable_destroyed_before_initialized"
      [] OTHER -> "none"

\* A step of the first loop of doIt that got a verdict for the use it is at.
Checked == pc = "phase1" /\ i < Len(CurUses) /\ verdicts' # verdicts

MembersBefore(I) ==
    LET B == getParent(code, I)
    IN  {k \in 1..(IndexOf(code[B], I, 1) - 1) : code[B][k] \in NonLoadUses}

\* The closest of them.
ClosestBefore(I) == CHOOSE k \in MembersBefore(I) : \A j \in MembersBefore(I) : j <= k

CycleAt(B, C) ==
    /\ B \in 2..Len(preds) /\ C \in 2..Len(preds) /\ B # C
    /\ preds[B] = <<C, MemoryBlock>>
    /\ preds[C] = <<B>>
    /\ ~PerBlockInfo[B].HasNonLoadUse /\ ~PerBlockInfo[C].HasNonLoadUse

\* The verdicts for uses that are first in a block whose only predecessor
\* is P (for an assign, the store made of it is there).
VerdictsBelow(P) ==
    {k \in 1..Len(verdicts) :
        \E D \in 2..Len(preds) :
            /\ preds[D] = <<P>>
            /\ code[D] # <<>>
            /\ \/ code[D][1] = verdicts[k].inst
               \/ /\ insts[verdicts[k].inst].op = "assign"
                  /\ insts[code[D][1]].val = insts[verdicts[k].inst].val}

\* C18: what is cached for a block in a cycle is what its predecessors
\* come to.  With the loop header B and the body C of CycleAt, a query of B
\* and then a query of C answer no both, the verdicts below them are DI_No;
\* and a block without a non-load use is cached as live out only if all its
\* predecessors are.
C18_CycleCache ==
    /\ \A B, C \in 1..Len(preds) :
          (CycleAt(B, C) /\ PerBlockInfo[MemoryBlock].Availability = "IsNotLiveOut") =>
              \A k \in VerdictsBelow(B) \cup VerdictsBelow(C) : verdicts[k].di = "DI_No"
    /\ \A b \in 1..Len(preds) :
          (~PerBlockInfo[b].HasNonLoadUse /\ PerBlockInfo[b].Availability = "IsLiveOut") =>
              \A k \in 1..Len(preds[b]) :
                  PerBlockInfo[preds[b][k]].Availability = "IsLiveOut"

\* ------------------------------------------------------------------------
\* isLiveOut step by step: the recursion with its stack of calls
\* ------------------------------------------------------------------------

\* The most calls of checkDefinitelyInit that go to the predecessors.
MaxQueries == 2

\* The table the constructor makes when the blocks in S hold non-load uses.
TableFor(P, S) ==
    [b \in 1..Len(P) |->
        IF b \in S THEN LiveOutBlockState("Unknown", TRUE, "IsLiveOut")
        ELSE IF b = MemoryBlock THEN LiveOutBlockState("Unknown", TRUE, "IsNotLiveOut")
        ELSE LiveOutBlockState("Unknown", FALSE, "IsUnknown")]

InitLive ==
    /\ preds \in CFGs
    /\ \E S \in SUBSET (1..Len(preds)) : PerBlockInfo = TableFor(preds, S)
    /\ stack = <<>>
    /\ entered = [b \in 1..Len(preds) |-> 0]
    /\ fn = "isLiveOut"
    /\ arg = <<>>
    /\ res = <<>>
    /\ pc = "idle"
    /\ i = 0
    /\ verdicts = <<>>
    /\ memTy = RefTy
    /\ memKind = "alloc_box"
    /\ code = [b \in 1..Len(preds) |-> IF b = MemoryBlock THEN <<TheMemory>> ELSE <<>>]
    /\ insts = <<>>
    /\ chain = <<>>
    /\ repl = <<>>
    /\ Uses = <<>>
    /\ oob = FALSE
    /\ EltNo = 0
    /\ NonLoadUses = {TheMemory}
    /\ HasAnyEscape = FALSE
    /\ HadError = FALSE
    /\ diags = <<>>
    /\ run = 1

\* What the recursion leaves alone.
rest == <<memTy, memKind, preds, code, insts, chain, repl, Uses, oob, EltNo, NonLoadUses, HasAnyEscape, HadError, diags, run, fn>>

Frame(BB, k) == [bb |-> BB, k |-> k]

Top == stack[Len(stack)]

Pop == SubSeq(stack, 1, Len(stack) - 1)

\* A block that is set to IsComputingLiveOut when the answer is no.
Conclude_Leave(r) == IF r THEN "IsLiveOut" ELSE "IsComputingLiveOut"

\* The state a block is set to when its predecessors have answered.
Conclude(r) == IF r THEN "IsLiveOut" ELSE "IsNotLiveOut"

\* checkDefinitelyInit, for a use in InstBB with nothing before it in the
\* block, goes to the loop over the predecessors.
StartCheck ==
    /\ pc = "idle"
    /\ i < MaxQueries
    /\ \E InstBB \in 1..Len(preds) : arg' = preds[InstBB]
    /\ i' = i + 1
    /\ pc' = "check"
    /\ UNCHANGED <<rest, PerBlockInfo, stack, entered, res, verdicts>>

\* The loop of checkDefinitelyInit: call isLiveOut on the next predecessor,
\* or return DI_Yes after the last.
CheckNext ==
    /\ pc = "check"
    /\ IF arg = <<>>
       THEN /\ verdicts' = Append(verdicts, [inst |-> 0, di |-> "DI_Yes"])
            /\ pc' = "idle"
            /\ UNCHANGED <<stack, arg>>
       ELSE /\ stack' = <<Frame(Head(arg), 0)>>
            /\ arg' = Tail(arg)
            /\ pc' = "enter"
            /\ UNCHANGED verdicts
    /\ UNCHANGED <<rest, PerBlockInfo, entered, res, i>>

\* The switch at the head of isLiveOut.
Enter ==
    /\ pc = "enter"
    /\ LET BB == Top.bb
           a == PerBlockInfo[BB].Availability
       IN  IF a = "IsUnknown"
           THEN /\ PerBlockInfo' = [PerBlockInfo EXCEPT ![BB].Availability = "IsComputingLiveOut"]
                /\ entered' = [entered EXCEPT ![BB] = @ + 1]
                /\ stack' = [stack EXCEPT ![Len(stack)] = Frame(BB, 1)]
                /\ pc' = "loop"
                /\ UNCHANGED res
           ELSE /\ res' = <<a # "IsNotLiveOut">>
                /\ stack' = Pop
                /\ pc' = "ret"
                /\ UNCHANGED <<PerBlockInfo, entered>>
    /\ UNCHANGED <<rest, arg, i, verdicts>>

\* The loop of isLiveOut over the predecessors: call isLiveOut on the next,
\* or set the block live out and return true after the last.
Loop ==
    /\ pc = "loop"
    /\ LET BB == Top.bb
       IN  IF Top.k > Len(preds[BB])
           THEN /\ PerBlockInfo' = [PerBlockInfo EXCEPT ![BB].Availability = Conclude(TRUE)]
                /\ res' = <<TRUE>>
                /\ stack' = Pop
                /\ pc' = "ret"
           ELSE /\ stack' = Append(stack, Frame(preds[BB][Top.k], 0))
                /\ pc' = "enter"
                /\ UNCHANGED <<PerBlockInfo, res>>
    /\ UNCHANGED <<rest, entered, arg, i, verdicts>>

\* A call of isLiveOut returns, to isLiveOut or to checkDefinitelyInit.
Return ==
    /\ pc = "ret"
    /\ IF stack = <<>>
       THEN /\ IF res[1]
               THEN pc' = "check" /\ UNCHANGED <<arg, verdicts>>
               ELSE /\ pc' = "idle"
                    /\ arg' = <<>>
                    /\ verdicts' = Append(verdicts, [inst |-> 0, di |-> "DI_No"])
            /\ UNCHANGED <<PerBlockInfo, stack, res>>
       ELSE /\ IF res[1]
               THEN /\ stack' = [stack EXCEPT ![Len(stack)] = Frame(Top.bb, Top.k + 1)]
                    /\ pc' = "loop"
                    /\ UNCHANGED <<PerBlockInfo, res>>
               ELSE /\ PerBlockInfo' = [PerBlockInfo EXCEPT ![Top.bb].Availability = Conclude(FALSE)]
                    /\ res' = <<FALSE>>
                    /\ stack' = Pop
                    /\ pc' = "ret"
            /\ UNCHANGED <<arg, verdicts>>
    /\ UNCHANGED <<rest, entered, i>>

NextLive == StartCheck \/ CheckNext \/ Enter \/ Loop \/ Return

SpecLive == InitLive /\ [][NextLive]_vars

\* Every call that can take a step takes it.
FairLive == InitLive /\ [][NextLive]_vars /\ WF_vars(NextLive)

Final == {"IsLiveOut", "IsNotLiveOut"}

\* C19: isLiveOut terminates on every control flow graph, cyclic ones
\* included: a call of checkDefinitelyInit that is under way returns; each
\* block goes from IsUnknown to IsComputingLiveOut once at most; a block
\* that is IsComputingLiveOut answers true without a recursive call; a block
\* that is IsLiveOut or IsNotLiveOut stays so; and no block is
\* IsComputingLiveOut when checkDefinitelyInit has returned.
C19_Terminates ==
    /\ (pc # "idle") ~> (pc = "idle")
    /\ [](\A b \in 1..Len(preds) : entered[b] <= 1)
    /\ [](pc = "idle" =>
             /\ stack = <<>>
             /\ \A b \in 1..Len(preds) : PerBlockInfo[b].Availability # "IsComputingLiveOut")
    /\ [][/\ \A b \in 1..Len(preds) :
                PerBlockInfo[b].Availability \in Final => PerBlockInfo'[b] = PerBlockInfo[b]
          /\ (pc = "enter" /\ PerBlockInfo[Top.bb].Availability = "IsComputingLiveOut") =>
                /\ res' = <<TRUE>> /\ stack' = Pop /\ PerBlockInfo' = PerBlockInfo]_vars

\* A query in a cycle has returned: the block asked first was found
\* computing by a recursive call, and both blocks of the cycle are final.
C19_Witness ==
    /\ pc = "idle" /\ i > 0
    /\ \E B, C \in 2..Len(preds) :
          /\ B # C
          /\ preds[C] = <<B>> /\ preds[B][1] = C
          /\ entered[B] = 1 /\ entered[C] = 1
          /\ PerBlockInfo[C].Availability = "IsLiveOut"
          /\ PerBlockInfo[B].Availability = "IsNotLiveOut"

\* The constructor has run and the first loop of doIt has not started.
BeforePhase1 == pc = "phase1" /\ i = 0

\* The blocks that hold a use of the current element of one of the kinds.
BlocksWith(kinds) ==
    {getParent(code, CurUses[k].inst) : k \in {j \in 1..Len(CurUses) : CurUses[j].kind \in kinds}}

NonLoadKinds == {"Store", "PartialStore", "InOutUse", "Escape", "Release"}

\* The table of C20 when the blocks in live are the ones that make the
\* block of the allocation live out.
Premarked(live) ==
    \A b \in 1..Len(preds) :
        LET info == PerBlockInfo[b]
        IN  /\ b \in BlocksWith(NonLoadKinds) \ {MemoryBlock} =>
                  info.HasNonLoadUse /\ info.Availability = "IsLiveOut"
            /\ b = MemoryBlock =>
                  /\ info.HasNonLoadUse
                  /\ info.Availability = IF b \in live THEN "IsLiveOut" ELSE "IsNotLiveOut"
            /\ b \notin BlocksWith(NonLoadKinds) \cup {MemoryBlock} =>
                  ~info.HasNonLoadUse /\ info.Availability = "IsUnknown"

MaxUsesProj == 2

\* A protocol-typed object; its one projection is the address that
\* init_existential gives for the concrete value.
ProtoTy == [k |-> "exist", triv |-> FALSE, fields |-> <<Field("", RefTy)>>]

EnumRef == EnumTy(RefTy)

\* An enum whose payload is a tuple.
EnumTup == EnumTy(Tup2)

\* (E, Int) with the enum E of the tuple payload.
TupEnum == TupleTy(<<Field("", EnumTup), Field("", IntTy)>>)

\* struct { x: (Int, Ref) }
StructTup == StructTy(<<Field("x", Tup2)>>)

E0 == <<Step("enum", 0)>>

EX0 == <<Step("exist", 0)>>

ProjTypes == {RefTy, Tup2, Nest, StructXY, StructTup, EnumRef, EnumTup, TupEnum, ProtoTy}

ProjItems(T) ==
    IF T = RefTy
    THEN { Item("store", Root, FALSE, 1), Item("load", Root, FALSE, 0),
           Item("copy_addr", Root, FALSE, 1), Item("copy_addr", Root, TRUE, 1),
           Item("store_weak", Root, FALSE, 1), Item("store_weak", Root, TRUE, 1),
           Item("strong_release", Root, FALSE, 0) }
    ELSE IF T = Tup2
    THEN { Item("store", a, FALSE, 1) : a \in {T0, T1} } \cup
         { Item("copy_addr", Root, FALSE, 1), Item("copy_addr", Root, TRUE, 1),
           Item("copy_addr", T1, FALSE, 1), Item("initialize_var", Root, FALSE, 0),
           Item("assign", T1, FALSE, 1), Item("load", T1, FALSE, 0) }
    ELSE IF T = Nest
    THEN { Item("load", a, FALSE, 0) : a \in {Root, T0} } \cup
         { Item("store", Root, FALSE, 1), Item("assign", T0, FALSE, 1),
           Item("store", T0 \o T1, FALSE, 1) }
    ELSE IF T = StructXY
    THEN { Item("store", a, FALSE, 1) : a \in {Root, X} } \cup
         { Item("assign", X, FALSE, 1), Item("copy_addr", X, FALSE, 1),
           Item("initialize_var", X, FALSE, 0), Item("load", X, FALSE, 0) }
    ELSE IF T = StructTup
    THEN { Item("store", a, FALSE, 1) : a \in {Root, X, X \o T1} } \cup
         { Item("load", a, FALSE, 0) : a \in {Root, X} } \cup
         { Item("assign", X, FALSE, 1) }
    ELSE IF T = EnumRef
    THEN { Item("inject_enum_addr", Root, FALSE, 0), Item("store", Root, FALSE, 1),
           Item("store", E0, FALSE, 1), Item("load", E0, FALSE, 0),
           Item("load", Root, FALSE, 0), Item("apply_inout", E0, FALSE, 0),
           Item("apply", Root, FALSE, 0) }
    ELSE IF T = EnumTup
    THEN { Item("store", Root, FALSE, 1), Item("load", Root, FALSE, 0),
           Item("copy_addr", E0, FALSE, 1), Item("load", E0, FALSE, 0),
           Item("store", E0 \o T0, FALSE, 1), Item("store", E0 \o T1, FALSE, 1) }
    ELSE IF T = TupEnum
    THEN { Item("store", a, FALSE, 1) : a \in {T0, T1, T0 \o E0 \o T1} } \cup
         { Item("copy_addr", T0 \o E0, FALSE, 1), Item("load", T1, FALSE, 0) }
    ELSE { Item("init_existential", Root, FALSE, 0), Item("store", Root, FALSE, 1),
           Item("store", EX0, FALSE, 1), Item("load", EX0, FALSE, 0),
           Item("load", Root, FALSE, 0) }

\* The address of a projection of an existential is made by init_existential.
Formed(T, items) ==
    (\E k \in 1..Len(items) : \E n \in 1..Len(items[k].addr) : items[k].addr[n].k = "exist")
        => \E k \in 1..Len(items) : items[k].op = "init_existential"

InitProj ==
    \E T \in ProjTypes : \E n \in 0..MaxUsesProj :
    \E items \in [1..n -> ProjItems(T)] : \E order \in LocalOrders(T, n) :
        /\ Formed(T, items)
        /\ InitWith(T, OneBlock, items, [k \in 1..n |-> 1], order)

SpecProj == InitProj /\ [][Next]_vars

\* The steps of an address before its first step of the kind k (all of
\* them if there is none).
RECURSIVE Before(_, _)
Before(addr, k) ==
    IF addr = <<>> \/ Head(addr).k = k THEN <<>>
    ELSE <<Head(addr)>> \o Before(Tail(addr), k)

Through(addr, k) == \E n \in 1..Len(addr) : addr[n].k = k

\* The bucket of the tuple element at an address: its place among the
\* tuple elements of the object, counted from 0.
BucketOf(T, addr) ==
    (CHOOSE n \in 1..getTupleElementCount(T) : TupleLeaves(T, <<>>)[n] = addr) - 1

Collected == pc # "collect"

\* C21: a use reached through an enum payload projection is recorded in
\* the bucket of the enum, whatever tuple_element_addr projections of the
\* payload lie on the way, and in no other bucket.
C21_EnumBucket ==
    Collected =>
        /\ ~oob
        /\ \A e \in 1..Len(Uses) : \A u \in 1..Len(Uses[e]) :
              LET addr == insts[Uses[e][u].inst].addr
              IN  (Uses[e][u].kind # "Release" /\ Through(addr, "enum")) =>
                      e - 1 = BucketOf(memTy, Before(addr, "enum"))

\* C22: the collector never writes at an index that is not smaller than
\* the size of the Uses array, the number of tuple elements of the object.
C22_BucketInRange ==
    /\ Len(Uses) \in {0, getTupleElementCount(memTy)}
    /\ ~oob

FlagOps == {"copy_addr", "store_weak"}

\* The first loop of doIt is at a Store use that is a copy_addr or a
\* store_weak.
AtFlagStore ==
    AtUse({"Store"}) /\ insts[CurUse.inst].op \in FlagOps

\* C23: a copy_addr or store_weak Store use that is not marked as an
\* initialization when the first loop of doIt comes to it is checked, and
\* its bit is set to whether the verdict is DI_No; one that is marked is
\* passed over: no verdict, the bit as it was.  No other step of the loop
\* changes the bit of such an instruction.
C23_InitBitFollowsVerdict ==
    [][/\ AtFlagStore =>
            LET Id == CurUse.inst
            IN  IF insts[Id].flag
                THEN verdicts' = verdicts /\ insts' = insts
                ELSE /\ Len(verdicts') = Len(verdicts) + 1
                     /\ verdicts'[Len(verdicts')].inst = Id
                     /\ insts'[Id].flag = (verdicts'[Len(verdicts')].di = "DI_No")
       /\ ~AtFlagStore =>
            \A id \in 1..Len(insts) :
                insts[id].op \in FlagOps => insts'[id] = insts[id]]_vars

\* Both outcomes: a copy_addr right after the allocation was made an
\* initialization, a store_weak after it was left an assignment.
C23_Witness ==
    /\ pc = "done"
    /\ \E k \in 1..Len(verdicts) :
          /\ verdicts[k].di = "DI_No"
          /\ insts[verdicts[k].inst].op = "copy_addr" /\ insts[verdicts[k].inst].flag
    /\ \E k \in 1..Len(verdicts) :
          /\ verdicts[k].di = "DI_Yes"
          /\ insts[verdicts[k].inst].op = "store_weak" /\ ~insts[verdicts[k].inst].flag

\* The buckets whose use list holds the instruction id as a Store.
BucketsOf(id) ==
    {e \in 1..Len(Uses) : \E u \in 1..Len(Uses[e]) :
        Uses[e][u].inst = id /\ Uses[e][u].kind = "Store"}

\* Whether the element of bucket e holds a value right before the
\* instruction id: a store to it comes before id in the block.
StoredBefore(e, id) ==
    LET block == code[getParent(code, id)]
    IN  \E k \in 1..(IndexOf(block, id, 1) - 1) :
            /\ block[k] # TheMemory
            /\ \E u \in 1..Len(Uses[e]) :
                  Uses[e][u].inst = block[k] /\ Uses[e][u].kind # "Load"

\* C24: when the pass is done without an error, the bit of a copy_addr
\* that was checked (it came with the bit clear) and whose destination
\* covers several buckets agrees with every one of them:
\* it is set only if no covered element held a value at the copy_addr, and
\* clear only if every covered element did.
C24_InitBitAgreesOnAllBuckets ==
    (pc = "done" /\ diags = <<>>) =>
        \A id \in 1..Len(insts) :
            (/\ insts[id].op = "copy_addr" /\ Cardinality(BucketsOf(id)) > 1
             /\ \E k \in 1..Len(verdicts) : verdicts[k].inst = id) =>
                /\ insts[id].flag => \A e \in BucketsOf(id) : ~StoredBefore(e, id)
                /\ ~insts[id].flag => \A e \in BucketsOf(id) : StoredBefore(e, id)

\* The instructions a step makes.
Made == (Len(insts) + 1)..Len(insts')

\* The entries a step appends to the use list of the current element.
Appended == {k \in 1..Len(Uses'[EltNo + 1]) : k > Len(CurUses)}

\* C25: the entries appended to the use list of an element during the
\* first loop of doIt are the stores and the loads made by lowering an
\* assign; they are put behind the position of the loop, which goes on one
\* entry at a time and ends only at the end of the list, so it visits them
\* before the second loop begins; the second loop stops at every Load entry
\* of the list, the appended ones included.  When a store is appended it is
\* in NonLoadUses and the assign is not.
C25_AppendedUsesVisited ==
    [][/\ (pc = "phase1" /\ Uses' # Uses) =>
            /\ insts[CurUse.inst].op = "assign"
            /\ \A e \in 1..Len(Uses) : e # EltNo + 1 => Uses'[e] = Uses[e]
            /\ SubSeq(Uses'[EltNo + 1], 1, Len(CurUses)) = CurUses
            /\ \A k \in Appended : k > i + 1 /\ Uses'[EltNo + 1][k].inst \in Made
            /\ \A id \in Made :
                  /\ insts'[id].op = "store" =>
                        /\ id \in NonLoadUses'
                        /\ \E k \in Appended : Uses'[EltNo + 1][k] = UseEntry(id, "Store")
                  /\ insts'[id].op = "load" =>
                        \E k \in Appended : Uses'[EltNo + 1][k] = UseEntry(id, "Load")
            /\ CurUse.inst \notin NonLoadUses'
            /\ pc' = "phase1" /\ i' = i + 1
       /\ (pc = "phase1" /\ pc' = "phase1" /\ EltNo' = EltNo) => i' = i + 1
       /\ (pc = "phase1" /\ pc' = "phase2") => i = Len(CurUses)
       /\ pc = "phase2" => Uses' = Uses
       /\ (pc = "phase2" /\ i < Len(CurUses)) => CurUse.kind = "Load"
       /\ (pc' = "phase2") =>
            \A k \in 1..i' : (pc = "phase1" \/ k > i + 1) => Uses'[EltNo + 1][k].kind # "Load"
       /\ (pc = "phase2" /\ pc' = "element") => i = Len(CurUses)]_vars

\* A load and a store made for an assign are in the use list, and the
\* second loop has replaced the load.
C25_Witness ==
    /\ pc = "done"
    /\ \E e \in 1..Len(Uses) : \E k, m \in 1..Len(Uses[e]) :
          /\ Uses[e][k].inst > Len(chain) /\ Uses[e][k].kind = "Load"
          /\ repl[Uses[e][k].inst] # NoVal
          /\ Uses[e][m].inst > Len(chain) /\ Uses[e][m].kind = "Store"
          /\ Uses[e][m].inst \in NonLoadUses

\* Use collection is just over.
JustCollected == pc = "element" /\ EltNo = 0

ScalarOps == {"load", "store", "assign"}

\* An instruction that reads or writes the whole tuple at its address.
OnTuple(id) ==
    /\ insts[id].op \in ScalarOps
    /\ PointeeType(memTy, insts[id].addr).k = "tuple"

\* The instruction id is in some use list.
Recorded(id) == \E e \in 1..Len(Uses) : \E u \in 1..Len(Uses[e]) : Uses[e][u].inst = id

IsWrite(id) ==
    \/ insts[id].op \in {"store", "assign", "store_weak", "copy_addr"} /\ insts[id].opnd = 1
    \/ insts[id].op = "initialize_var"

\* The buckets of the tuple elements that lie at or under an address.
ElementBuckets(addr) ==
    {e \in 1..getTupleElementCount(memTy) : IsPrefix(addr, TupleLeaves(memTy, <<>>)[e])}

OnlyTupleSteps(addr) == \A n \in 1..Len(addr) : addr[n].k = "tuple"

\* C27: a store, assign, store_weak, copy_addr destination or
\* initialize_var is in the use lists as a PartialStore when its address
\* lies under a struct_element_addr or under an init_existential, and as a
\* Store when it does not; one on the address of a tuple element that is
\* reached through tuple_element_addr projections alone is a Store of the
\* buckets of that element and of no other bucket.
C27_PartialStoreInStruct ==
    JustCollected =>
        /\ \A e \in 1..Len(Uses) : \A u \in 1..Len(Uses[e]) :
              LET id == Uses[e][u].inst
              IN  IsWrite(id) =>
                      Uses[e][u].kind =
                          IF Through(insts[id].addr, "struct") \/ Through(insts[id].addr, "exist")
                          THEN "PartialStore" ELSE "Store"
        /\ \A id \in 1..Len(insts) :
              (IsWrite(id) /\ IsAlive(code, id) /\ OnlyTupleSteps(insts[id].addr)) =>
                  /\ BucketsOf(id) = ElementBuckets(insts[id].addr)
                  /\ \A e \in 1..Len(Uses) : \A u \in 1..Len(Uses[e]) :
                        Uses[e][u].inst = id => e \in ElementBuckets(insts[id].addr)

\* A store under a struct projection of a tuple field, one under an
\* init_existential, and a store to the second element of a tuple.
C27_Witness ==
    /\ JustCollected
    /\ \/ /\ memTy = StructTup
          /\ \E u \in 1..Len(Uses[1]) : Uses[1][u].kind = "PartialStore" /\ insts[Uses[1][u].inst].addr = X \o T1
       \/ /\ memTy = ProtoTy
          /\ \E u \in 1..Len(Uses[1]) : Uses[1][u].kind = "PartialStore" /\ insts[Uses[1][u].inst].addr = EX0
       \/ /\ memTy = Tup2
          /\ \E u \in 1..Len(Uses[2]) : Uses[2][u] = UseEntry(Uses[2][u].inst, "Store") /\ insts[Uses[2][u].inst].op = "store"

\* C28: load promotion never stops on the assertion of ComputeAccessPath:
\* every address it is called on, the address of a Load use and the
\* destination of a store in NonLoadUses, is made of tuple_element_addr
\* and struct_element_addr projections alone, also for the loads and
\* stores reached through enum_data_addr or init_existential.  (A pass that
\* stopped has either failed that assertion or written a use past the end
\* of Uses.)
C28_AccessPathFound ==
    /\ pc = "aborted" => oob
    /\ (pc = "phase2" /\ i < Len(CurUses) /\ insts[CurUse.inst].op = "load" /\ ~HasAnyEscape) =>
           /\ ComputeAccessPath(memTy, insts[CurUse.inst].addr).ok
           /\ \A id \in NonLoadUses \cap (1..Len(insts)) :
                 insts[id].op = "store" => ComputeAccessPath(memTy, insts[id].addr).ok

\* The instructions that use the current element otherwise than by
\* loading it.
NonLoadInsts(uses) == {uses[k].inst : k \in {j \in 1..Len(uses) : uses[j].kind # "Load"}}

\* C29: a Load use gets variable_used_before_initialized only when some
\* path from the allocation to the load passes no store, assign, copy,
\* inout use, escape or release of the element before the load.
C29_NoFalseAlarmOnLoad ==
    [][(AtUse({"Load"}) /\ diags' # diags)
       => /\ diags'[Len(diags) + 1].kind = "variable_used_before_initialized"
          /\ diags'[Len(diags) + 1].inst = CurUse.inst
          /\ ~DominatedBy(code, preds, NonLoadInsts(CurUses), CurUse.inst)]_vars

\* A load in a block below the allocation block is diagnosed although a
\* store reaches it on another path.
C29_Witness ==
    /\ diags # <<>>
    /\ diags[1].kind = "variable_used_before_initialized"
    /\ getParent(code, diags[1].inst) # MemoryBlock
    /\ ReachedFrom(code, preds, StoreInsts(Uses[diags[1].elt + 1]), diags[1].inst)
    /\ ~DominatedBy(code, preds, NonLoadInsts(Uses[diags[1].elt + 1]), diags[1].inst)

\* The table the constructor would make for the current element now.
FreshTable ==
    LET Alive(u) == IsAlive(code, u.inst)
    IN  PerBlockInfoOf(SelectSeq(CurUses, Alive), code)

\* C30: the verdict checkDefinitelyInit gives for a use is the one it
\* gives when the use is the first to be checked, with the predecessor
\* lists in either order: it depends neither on the uses checked before
\* nor on the order of the predecessors.
C30_VerdictOrderIndependent ==
    [][Checked =>
         \A P \in {preds, [b \in 1..Len(preds) |-> Reverse(preds[b])]} :
             verdicts'[Len(verdicts')].di =
                 checkDefinitelyInit(FreshTable, NonLoadUses, code, P, CurUse.inst).di]_vars

====
